---------------------------- MODULE Spec2Model ----------------------------
(***************************************************************************)
(* Chapter-boundary resolution of opciuev/EpubExport.                      *)
(*                                                                         *)
(* EpubExporter.get_chapters (src/epub_exporter.py) and                    *)
(* EpubExporterV2.get_chapters (src/epub_exporter_v2.py) are modelled as   *)
(* state machines over a loaded archive (manifest items, navigation tree,  *)
(* spine).                                                                 *)
(*                                                                         *)
(* Text.  A document is a sequence of lexical tokens.  Every token stands  *)
(* for a fixed piece of markup or text and carries its width in            *)
(* characters and its lexical class (Lex).  All regular expressions of     *)
(* the source begin and end their matches on token boundaries of this      *)
(* alphabet, so a regex search is a search over token indices, and a       *)
(* character offset is the sum of the widths before an index (Pos).        *)
(* Hrefs, fragments and chapter ids are sequences of symbols, so that      *)
(* splitting at '#', prefix tests and case folding are computed and not    *)
(* assumed.                                                                *)
(***************************************************************************)
EXTENDS Integers, Sequences, FiniteSets, TLC

(***************************************************************************)
(* Generic helpers                                                         *)
(***************************************************************************)
Min(S) == CHOOSE x \in S : \A y \in S : x <= y

Max(S) == CHOOSE x \in S : \A y \in S : x >= y

IsPrefix(p, s) == Len(p) <= Len(s) /\ SubSeq(s, 1, Len(p)) = p

Slice(s, from, to) == IF to < from THEN <<>> ELSE SubSeq(s, from, to)

Drop(s, n) == SubSeq(s, n + 1, Len(s))

\* x or y (Python's "or" on sequences: the first operand unless it is empty)
OrElse(x, y) == IF x # <<>> THEN x ELSE y

\* x unless it is the "no match" index 0
FoundOr(x, y) == IF x # 0 THEN x ELSE y

RECURSIVE SeqsUpTo(_, _)
SeqsUpTo(S, n) ==
    IF n = 0 THEN {<<>>}
    ELSE {<<>>} \cup {<<x>> \o s : x \in S, s \in SeqsUpTo(S, n - 1)}

RECURSIVE Flat(_)
Flat(ss) == IF ss = <<>> THEN <<>> ELSE Head(ss) \o Flat(Tail(ss))

(***************************************************************************)
(* The lexical alphabet.  A token is a record: its text, its width in      *)
(* characters, its lexical class, a heading level and an attribute value.  *)
(***************************************************************************)
Tok(text, w, kind, lvl, val) == [text |-> text, w |-> w, kind |-> kind, lvl |-> lvl, val |-> val]

Lex ==
    [t \in {"x", "y"}               |-> Tok(t, 1, "text", 0, <<>>)] @@
    [t \in {" ", "\n"}              |-> Tok(t, 1, "space", 0, <<>>)] @@
    [t \in {"X120"}                 |-> Tok(t, 120, "text", 0, <<>>)] @@
    [t \in {"X600"}                 |-> Tok(t, 600, "text", 0, <<>>)] @@
    [t \in {"X10000"}               |-> Tok(t, 10000, "text", 0, <<>>)] @@
    [t \in {"<a"}                   |-> Tok(t, 2, "tagopen", 0, <<>>)] @@
    [t \in {">"}                    |-> Tok(t, 1, "tagend", 0, <<>>)] @@
    [t \in {"id='filepos1'"}        |-> Tok(t, 13, "id", 0, <<"filepos", "1">>)] @@
    [t \in {"id='filepos2'"}        |-> Tok(t, 13, "id", 0, <<"filepos", "2">>)] @@
    [t \in {"id='filepos10'"}       |-> Tok(t, 14, "id", 0, <<"filepos", "1", "0">>)] @@
    [t \in {"ID='FILEPOS2'"}        |-> Tok(t, 13, "id", 0, <<"FILEPOS", "2">>)] @@
    [t \in {"name='filepos1'"}      |-> Tok(t, 15, "name", 0, <<"filepos", "1">>)] @@
    [t \in {"id='sec'"}             |-> Tok(t, 8, "id", 0, <<"sec">>)] @@
    [t \in {"id='sec2'"}            |-> Tok(t, 9, "id", 0, <<"sec", "2">>)] @@
    [t \in {"<h1>"}                 |-> Tok(t, 4, "hopen", 1, <<>>)] @@
    [t \in {"<h2>"}                 |-> Tok(t, 4, "hopen", 2, <<>>)] @@
    [t \in {"<h4>"}                 |-> Tok(t, 4, "hopen", 4, <<>>)] @@
    [t \in {"<h5>"}                 |-> Tok(t, 4, "hopen", 5, <<>>)] @@
    [t \in {"</h1>"}                |-> Tok(t, 5, "hclose", 1, <<>>)] @@
    [t \in {"</h2>"}                |-> Tok(t, 5, "hclose", 2, <<>>)] @@
    [t \in {"</h4>"}                |-> Tok(t, 5, "hclose", 4, <<>>)] @@
    [t \in {"</h5>"}                |-> Tok(t, 5, "hclose", 5, <<>>)] @@
    [t \in {"<title>"}              |-> Tok(t, 7, "topen", 0, <<>>)] @@
    [t \in {"</title>"}             |-> Tok(t, 8, "tclose", 0, <<>>)] @@
    [t \in {"<b>"}                  |-> Tok(t, 3, "tag", 0, <<>>)] @@
    [t \in {"</b>"}                 |-> Tok(t, 4, "tag", 0, <<>>)] @@
    [t \in {"<div class='chapter'>"} |-> Tok(t, 21, "chapdiv", 0, <<>>)] @@
    [t \in {"&amp;"}                |-> Tok(t, 5, "entity", 0, <<>>)] @@
    [t \in {"#"}                    |-> Tok(t, 1, "hash", 0, <<>>)] @@
    [t \in {"Chapter"}              |-> Tok(t, 7, "chapword", 0, <<>>)] @@
    [t \in {"1", "2"}               |-> Tok(t, 1, "digit", 0, <<>>)] @@
    [t \in {"."}                    |-> Tok(t, 1, "dot", 0, <<>>)] @@
    [t \in {":"}                    |-> Tok(t, 1, "colon", 0, <<>>)]

\* the document written as a sequence of token texts
Toks(texts) == [i \in 1..Len(texts) |-> Lex[texts[i]]]

\* text produced by the program itself
Newline == Tok("\n", 1, "space", 0, <<>>)

Ampersand == Tok("&", 1, "text", 0, <<>>)

\* a piece of a title or label that is not document text ("Chapter ", "3", ...)
Sym(text) == Tok(text, 1, "text", 0, <<>>)

\* \s of the regular expressions and the characters str.strip() removes
IsSpace(tok) == tok.kind = "space"

\* the token begins with '<'
StartsLT(tok) == tok.kind \in {"tagopen", "hopen", "hclose", "topen", "tclose", "tag", "chapdiv"}

\* the token contains '>' (as its last character)
HasGT(tok) == tok.kind \in {"tagend", "hopen", "hclose", "topen", "tclose", "tag", "chapdiv"}

Digits == {"0", "1", "2"}

\* str.lower() on one symbol (re.IGNORECASE compares case-folded)
Lower(sym) == IF sym = "FILEPOS" THEN "filepos" ELSE sym

LowerSeq(s) == [i \in 1..Len(s) |-> Lower(s[i])]

RECURSIVE CharLen(_)
CharLen(s) == IF s = <<>> THEN 0 ELSE Head(s).w + CharLen(Tail(s))

\* character offset (0-based) at which token i of s begins; Pos(s, Len(s)+1) = len(s)
Pos(s, i) == CharLen(SubSeq(s, 1, i - 1))

\* first index >= from whose token satisfies P, 0 when there is none (re.search)
FirstFrom(s, P(_), from) ==
    Min({i \in 1..Len(s) : i >= from /\ P(s[i])} \cup {Len(s) + 1}) % (Len(s) + 1)

\* number of leading tokens of s that satisfy P
Run(s, P(_)) == Min({i \in 1..Len(s) : ~P(s[i])} \cup {Len(s) + 1}) - 1

\* str.strip()
Strip(s) == Slice(s, Run(s, IsSpace) + 1,
                  Max({i \in 1..Len(s) : ~IsSpace(s[i])} \cup {0}))

\* re.sub(r'<[^>]+>', rep, s): a match begins at a '<' and runs to the first '>'
RECURSIVE SubTags(_, _)
SubTags(s, rep) ==
    IF s = <<>> THEN <<>>
    ELSE IF StartsLT(Head(s)) /\ \E j \in 1..Len(s) : HasGT(s[j])
         THEN rep \o SubTags(Drop(s, FirstFrom(s, HasGT, 1)), rep)
         ELSE <<Head(s)>> \o SubTags(Tail(s), rep)

\* html.unescape
unescape(s) == [i \in 1..Len(s) |-> IF s[i].kind = "entity" THEN Ampersand ELSE s[i]]

(***************************************************************************)
(* Hrefs: sequences of symbols; "#" separates resource name and fragment.  *)
(* The empty sequence stands for None (and for the empty string: the       *)
(* source tests both with "if next_href" / "if not anchor").               *)
(***************************************************************************)
\* index of the first '#' of href, 0 when it has none
HashAt(href) == Min({i \in 1..Len(href) : href[i] = "#"} \cup {Len(href) + 1}) % (Len(href) + 1)

HasFragment(href) == HashAt(href) # 0

\* href.split('#', 1)[0], or href when it holds no '#'
FileOf(href) == IF HasFragment(href) THEN SubSeq(href, 1, HashAt(href) - 1) ELSE href

\* href.split('#', 1)[1], or None (<<>>) when it holds no '#'
AnchorOf(href) == IF HasFragment(href) THEN Drop(href, HashAt(href)) ELSE <<>>

\* anchor.startswith('filepos')
IsFilepos(anchor) == anchor # <<>> /\ anchor[1] = "filepos"

(***************************************************************************)
(* Regular expressions of the resolver, on tokens                          *)
(***************************************************************************)
\* (?:id|name)=["']?<anchor>["']?  with re.IGNORECASE: the attribute value need
\* only begin with the anchor, and case is folded
filepos_pattern(anchor, tok) ==
    /\ tok.kind \in {"id", "name"}
    /\ IsPrefix(LowerSeq(anchor), LowerSeq(tok.val))

\* <h[1-4][^>]*>
IsHeading14(tok) == tok.kind = "hopen" /\ tok.lvl \in 1..4

\* id=["']?filepos\d+["']?
IsFileposId(tok) ==
    /\ tok.kind = "id"
    /\ Len(tok.val) >= 2
    /\ Lower(tok.val[1]) = "filepos"
    /\ tok.val[2] \in Digits

\* <div[^>]*class=["'][^"']*chapter[^"']*["'][^>]*>
IsChapterDiv(tok) == tok.kind = "chapdiv"

\* next_section_patterns, in the order the source tries them
SectionPattern(k, tok) ==
    CASE k = 1 -> IsHeading14(tok)
      [] k = 2 -> IsFileposId(tok)
      [] k = 3 -> IsChapterDiv(tok)

\* characters skipped before the heuristic end search (start_pos + 100)
SkipChars == 100

\* len(content) above which _smart_split_content looks for headings
SmartSplitMin == 10000

\* first token at or after character offset `off` that matches section pattern k,
\* 0 when there is none
SectionHit(content, k, off) ==
    Min({i \in 1..Len(content) : Pos(content, i) >= off /\ SectionPattern(k, content[i])}
            \cup {Len(content) + 1}) % (Len(content) + 1)

\* does the closing heading tag c end a match begun at the opening tag o?
ClosesHeading(o, c, lvls, same) ==
    /\ c.kind = "hclose"
    /\ IF same THEN c.lvl = o.lvl ELSE c.lvl \in lvls

\* index of the tag that closes the heading opened at token i, 0 when there is none
HeadingClose(s, i, lvls, same) ==
    Min({j \in (i + 1)..Len(s) : ClosesHeading(s[i], s[j], lvls, same)}
            \cup {Len(s) + 1}) % (Len(s) + 1)

\* index of the first heading element (opened and closed) at or after `from`, 0 if none
HeadingOpen(s, from, lvls, same) ==
    Min({i \in from..Len(s) : /\ s[i].kind = "hopen" /\ s[i].lvl \in lvls
                              /\ HeadingClose(s, i, lvls, same) # 0}
            \cup {Len(s) + 1}) % (Len(s) + 1)

\* list(re.finditer(r'<h[lvls]...>(.*?)</h..>', s)) from token `from` on, given the
\* first opening index i: non-overlapping matches [from, to], lazily closed
RECURSIVE HeadingsFrom(_, _, _, _)
HeadingsFrom(s, i, lvls, same) ==
    IF i = 0 THEN <<>>
    ELSE <<[from |-> i, to |-> HeadingClose(s, i, lvls, same)]>>
         \o HeadingsFrom(s, HeadingOpen(s, HeadingClose(s, i, lvls, same) + 1, lvls, same),
                         lvls, same)

\* `same` is the \1 backreference of the pattern: the closing level equals the opening
FindHeadings(s, lvls, same) == HeadingsFrom(s, HeadingOpen(s, 1, lvls, same), lvls, same)

(***************************************************************************)
(* The anchor resolver of EpubExporter                                     *)
(***************************************************************************)
\* the slice between the first two headings, when there are two
BetweenHeadings(content, headings) ==
    IF Len(headings) > 1
    THEN Strip(Slice(content, headings[1].from, headings[2].from - 1))
    ELSE content

smart_split_content(content, href) ==
    IF CharLen(content) > SmartSplitMin
    THEN BetweenHeadings(content, FindHeadings(content, 1..4, FALSE))
    ELSE content

\* variant of NextTargetEnd that never looks at the next navigation target
NextTargetEndIgnored(content, original_href, next_href) == 0

\* token index of the end chosen from the next navigation target, 0 if none
NextTargetEnd(content, original_href, next_href) ==
    IF /\ next_href # <<>>
       /\ HasFragment(next_href)
       /\ FileOf(next_href) = FileOf(original_href)
       /\ IsFilepos(AnchorOf(next_href))
    THEN FirstFrom(content, LAMBDA t : filepos_pattern(AnchorOf(next_href), t), 1)
    ELSE 0

\* variant of HeuristicEnd in which the slice always runs to the end of the document
HeuristicEndOfDocument(content, off) == Len(content) + 1

\* token index of the end chosen by the heuristic patterns, tried in list order
\* from offset `off` on; Len+1 (len(content)) if none matches
HeuristicEnd(content, off) ==
    FoundOr(SectionHit(content, 1, off),
            FoundOr(SectionHit(content, 2, off),
                    FoundOr(SectionHit(content, 3, off), Len(content) + 1)))

\* the token index one past the slice (end_pos); Len+1 stands for len(content)
FileposEnd(content, start, original_href, next_href) ==
    FoundOr(NextTargetEnd(content, original_href, next_href),
            HeuristicEnd(content, Pos(content, start) + SkipChars))

\* variant of FileposSlice that returns the slice even when it is empty
FileposSliceUnguarded(content, start, original_href, next_href) ==
    IF start = 0 THEN smart_split_content(content, original_href)
    ELSE Strip(Slice(content, start,
                     FileposEnd(content, start, original_href, next_href) - 1))

\* the slice from the marker at token `start` on, 0 meaning the marker was not found
FileposSlice(content, start, original_href, next_href) ==
    IF start = 0 THEN smart_split_content(content, original_href)
    ELSE OrElse(Strip(Slice(content, start,
                            FileposEnd(content, start, original_href, next_href) - 1)),
                content)

extract_by_filepos(content, anchor, original_href, next_href) ==
    FileposSlice(content, FirstFrom(content, LAMBDA t : filepos_pattern(anchor, t), 1),
                 original_href, next_href)

\* <[^>]+id=["']?<anchor>["']?[^>]*>: index of the first '<' that is followed, before
\* any '>', by an id attribute beginning with the anchor; 0 when there is none
IdTag(content, anchor) ==
    Min({i \in 1..Len(content) :
            /\ StartsLT(content[i]) /\ ~HasGT(content[i])
            /\ \E j \in (i + 1)..Len(content) :
                  /\ content[j].kind = "id"
                  /\ IsPrefix(LowerSeq(anchor), LowerSeq(content[j].val))
                  /\ \A k \in i..j : ~HasGT(content[k])
                  /\ \E k \in (j + 1)..Len(content) : HasGT(content[k])}
            \cup {Len(content) + 1}) % (Len(content) + 1)

\* the slice from the tag at token `from` to the first h1-h4 tag after the tag's '>'
IdSlice(content, from) ==
    IF from = 0 THEN content
    ELSE Strip(Slice(content, from,
                     FoundOr(FirstFrom(content, IsHeading14,
                                       FirstFrom(content, HasGT, from) + 1),
                             Len(content) + 1) - 1))

extract_by_id_anchor(content, anchor) == IdSlice(content, IdTag(content, anchor))

extract_content_by_anchor(content, anchor, original_href, next_href) ==
    IF IsFilepos(anchor)
    THEN extract_by_filepos(content, anchor, original_href, next_href)
    ELSE extract_by_id_anchor(content, anchor)

\* results of _get_item_content: a string, None, or an exception that escapes
Str(s) == [kind |-> "str", val |-> s]

None == [kind |-> "none", val |-> <<>>]

Raised == [kind |-> "raise", val |-> <<>>]

\* the first manifest item with this name and document type, 0 if none
DocItem(items, file_name) ==
    Min({i \in 1..Len(items) : items[i].name = file_name /\ items[i].type = "document"}
            \cup {Len(items) + 1}) % (Len(items) + 1)

\* the content of the item found (item: 0 when none was found)
ItemContent(item, href, next_href) ==
    IF ~item.decodable THEN Raised                        \* .decode('utf-8') raises
    ELSE IF item.content = <<>> THEN None
    ELSE IF AnchorOf(href) = <<>> THEN Str(item.content)
    ELSE Str(extract_content_by_anchor(item.content, AnchorOf(href), href, next_href))

get_item_content(items, href, next_href) ==
    IF DocItem(items, FileOf(href)) = 0 THEN None
    ELSE ItemContent(items[DocItem(items, FileOf(href))], href, next_href)

(***************************************************************************)
(* Chapters: (title, content, chapter_id) triples.  Titles are token       *)
(* sequences, ids are symbol sequences; f"Chapter {n}" is                  *)
(* <<Sym("Chapter "), Sym(Num(n))>>.                                       *)
(***************************************************************************)
Num(n) == <<"1", "2", "3", "4", "5", "6", "7", "8", "9", "10", "11", "12">>[n]

Chapter(title, content, id) == [title |-> title, content |-> content, id |-> id]

Placeholder(n) == <<Sym("Chapter "), Sym(Num(n))>>

\* the text between the tags of the match [from, to], markup removed and trimmed
InnerText(content, from, to) == Strip(SubTags(Slice(content, from + 1, to - 1), <<>>))

\* the trimmed inner text of the first match, <<>> when there is no match
FirstInner(content, matches) ==
    IF matches = <<>> THEN <<>> ELSE InnerText(content, matches[1].from, matches[1].to)

\* re.search(r'<title[^>]*>(.*?)</title>', content): [from, to] of the match
TitleElement(content) ==
    LET opens == {i \in 1..Len(content) :
                     /\ content[i].kind = "topen"
                     /\ \E j \in (i + 1)..Len(content) : content[j].kind = "tclose"}
    IN  IF opens = {} THEN <<>>
        ELSE <<[from |-> Min(opens),
                to |-> FirstFrom(content, LAMBDA t : t.kind = "tclose", Min(opens) + 1)]>>

\* _extract_title_from_content: the first h1-h6 element, else the first title
\* element; markup removed and trimmed; None (<<>>) when both are empty or absent
extract_title_from_content(content) ==
    OrElse(FirstInner(content, FindHeadings(content, 1..6, FALSE)),
           FirstInner(content, TitleElement(content)))

(***************************************************************************)
(* The re-splitter                                                         *)
(***************************************************************************)
\* variant of HtmlChapter that leaves the entities of the title undecoded
HtmlChapterUndecoded(content, headings, i) ==
    Chapter(OrElse(Strip(SubTags(Slice(content, headings[i].from + 1,
                                       headings[i].to - 1), <<>>)),
                   Placeholder(i)),
            Strip(Slice(content, headings[i].from,
                        IF i + 1 <= Len(headings) THEN headings[i + 1].from - 1
                        ELSE Len(content))),
            <<"chapter_", Num(i)>>)

\* the chapter _split_by_html_headings builds for heading i of `headings`
HtmlChapter(content, headings, i) ==
    Chapter(OrElse(Strip(unescape(SubTags(Slice(content, headings[i].from + 1,
                                                headings[i].to - 1), <<>>))),
                   Placeholder(i)),
            Strip(Slice(content, headings[i].from,
                        IF i + 1 <= Len(headings) THEN headings[i + 1].from - 1
                        ELSE Len(content))),
            <<"chapter_", Num(i)>>)

\* chapters if len(chapters) > 1 else []
IfSeveral(chapters) == IF Len(chapters) > 1 THEN chapters ELSE <<>>

HtmlChapters(content, headings) ==
    IF Len(headings) < 2 THEN <<>>
    ELSE IfSeveral(SelectSeq([i \in 1..Len(headings) |-> HtmlChapter(content, headings, i)],
                             LAMBDA c : c.content # <<>>))

\* variant of split_by_html_headings that also cuts at headings of level 4
split_by_html_headings_to_h4(content) == HtmlChapters(content, FindHeadings(content, 1..4, TRUE))

split_by_html_headings(content) == HtmlChapters(content, FindHeadings(content, 1..3, TRUE))

\* text_content.split('\n')
RECURSIVE SplitLines(_)
SplitLines(s) ==
    IF \A i \in 1..Len(s) : s[i].text # "\n" THEN <<s>>
    ELSE <<SubSeq(s, 1, Run(s, LAMBDA t : t.text # "\n"))>>
         \o SplitLines(Drop(s, Run(s, LAMBDA t : t.text # "\n") + 1))

\* re.sub(r'\n+', '\n', s)
RECURSIVE CollapseNewlines(_)
CollapseNewlines(s) ==
    IF Len(s) < 2 THEN s
    ELSE IF s[1].text = "\n" /\ s[2].text = "\n" THEN CollapseNewlines(Tail(s))
    ELSE <<Head(s)>> \o CollapseNewlines(Tail(s))

NoMatch == [hit |-> FALSE, title |-> <<>>]

\* a match whose group(1) is the line without its first n tokens, if `ok`
MatchAfter(ok, line, n) == IF ok THEN [hit |-> TRUE, title |-> Strip(Drop(line, n))] ELSE NoMatch

IsHash(t) == t.kind = "hash"

IsSpaceOrColon(t) == t.kind \in {"colon", "space"}

IsDigit(t) == t.kind = "digit"

\* ^#+\s+(.+)$ : a hashes, b blanks, then a non-empty rest
HashLine(line, a, b) == MatchAfter(a >= 1 /\ b >= 1 /\ Len(line) > a + b, line, a + b)

\* ^Chapter\s+\d+[:\s]*(.*)$ : the word, b blanks, d digits, c colons or blanks
ChapterLine(line, b, d, c) ==
    MatchAfter(line # <<>> /\ line[1].kind = "chapword" /\ b >= 1 /\ d >= 1, line, 1 + b + d + c)

\* ^\d+[\.]\s*(.+)$ : d digits, a dot, b blanks, then a non-empty rest
NumberLine(line, d, b) ==
    MatchAfter(d >= 1 /\ Len(line) > d /\ line[d + 1].kind = "dot" /\ Len(line) > d + 1 + b,
               line, d + 1 + b)

\* <h[1-3][^>]*>(.*?)</h[1-3]> at the start of the line
TagLine(line, h) ==
    IF h # <<>> /\ h[1].from = 1
    THEN [hit |-> TRUE, title |-> Strip(Slice(line, 2, h[1].to - 1))] ELSE NoMatch

\* re.match(heading_patterns[k], line, re.IGNORECASE) and, on a match,
\* match.group(1).strip()
LinePattern(k, line) ==
    CASE k = 1 -> TagLine(line, FindHeadings(line, 1..3, FALSE))
      [] k = 2 -> HashLine(line, Run(line, IsHash), Run(Drop(line, Run(line, IsHash)), IsSpace))
      [] k = 3 -> ChapterLine(line, Run(Drop(line, 1), IsSpace),
                              Run(Drop(line, 1 + Run(Drop(line, 1), IsSpace)), IsDigit),
                              Run(Drop(line, 1 + Run(Drop(line, 1), IsSpace)
                                             + Run(Drop(line, 1 + Run(Drop(line, 1), IsSpace)),
                                                   IsDigit)),
                                  IsSpaceOrColon))
      [] k = 4 -> NumberLine(line, Run(line, IsDigit), Run(Drop(line, Run(line, IsDigit) + 1), IsSpace))

\* the first heading pattern that matches the line, in list order
HeadingLine(line) ==
    LinePattern(Min({k \in 1..4 : LinePattern(k, line).hit} \cup {4}), line)

\* '\n'.join(current_chapter)
RECURSIVE JoinLines(_)
JoinLines(ls) ==
    IF ls = <<>> THEN <<>>
    ELSE IF Len(ls) = 1 THEN ls[1]
    ELSE ls[1] \o <<Newline>> \o JoinLines(Tail(ls))

\* chapters with a chapter of this content appended (if chapter_content:)
AppendChapter(chapters, chapter_content, current_title) ==
    IF chapter_content # <<>>
    THEN Append(chapters,
                Chapter(OrElse(current_title, Placeholder(Len(chapters) + 1)),
                        chapter_content, <<"chapter_", Num(Len(chapters) + 1)>>))
    ELSE chapters

SaveChapter(chapters, current_chapter, current_title) ==
    AppendChapter(chapters, Strip(JoinLines(current_chapter)), current_title)

\* one pass of the loop body of _split_by_text_patterns for a non-blank line:
\* the loop state [chapters, current_chapter, current_title] after it
TextStep(st, line, heading) ==
    IF heading.hit /\ st.current_chapter # <<>>
    THEN [chapters |-> SaveChapter(st.chapters, st.current_chapter, st.current_title),
          current_chapter |-> <<line>>,
          current_title |-> heading.title]
    ELSE [st EXCEPT !.current_chapter = Append(st.current_chapter, line)]

TextLine(st, line) == IF line = <<>> THEN st ELSE TextStep(st, line, HeadingLine(line))

\* the loop of _split_by_text_patterns over the remaining lines
RECURSIVE TextLoop(_, _)
TextLoop(lines, st) ==
    IF lines = <<>> THEN st ELSE TextLoop(Tail(lines), TextLine(st, Strip(Head(lines))))

\* "Save last chapter"
TextEnd(st) ==
    IF st.current_chapter # <<>>
    THEN SaveChapter(st.chapters, st.current_chapter, st.current_title)
    ELSE st.chapters

split_by_text_patterns(content) ==
    IfSeveral(TextEnd(TextLoop(
        SplitLines(Strip(CollapseNewlines(SubTags(content, <<Newline>>)))),
        [chapters |-> <<>>, current_chapter |-> <<>>, current_title |-> <<>>])))

\* variant of split_content_by_headings without the single-chapter fallback
split_content_by_headings_or_nothing(content) ==
    OrElse(split_by_html_headings(content), split_by_text_patterns(content))

split_content_by_headings(content) ==
    OrElse(split_by_html_headings(content),
           OrElse(split_by_text_patterns(content),
                  <<Chapter(<<Sym("Complete Content")>>, content, <<"full_content">>)>>))

\* variant of AllIdentical that does not compare the contents
AllIdenticalUncompared(chapters) == Len(chapters) > 1

\* all(chapter[1] == first_content for chapter in chapters), with len(chapters) > 1
AllIdentical(chapters) ==
    /\ Len(chapters) > 1
    /\ \A i \in 1..Len(chapters) : chapters[i].content = chapters[1].content

(***************************************************************************)
(* The archive (book): manifest items, navigation tree, spine.             *)
(*                                                                         *)
(* The navigation tree is a forest over node numbers: toc.roots is the     *)
(* top-level list, toc.nodes[n] holds title, href and the ordered list of  *)
(* children of node n (a node with children is a (Section, children)       *)
(* tuple of ebooklib, one without is a Link).                              *)
(***************************************************************************)
VARIABLES
    book,            \* [items, toc, spine]: the loaded archive, never written
    pc,              \* position in get_chapters
    all_items,       \* the flattened navigation entries (all_items of _extract_from_toc)
    idx,             \* loop index into all_items or the spine (1-based)
    chapters,        \* the chapter list under construction; the result once pc = "done"
    src,             \* history: for each chapter, the index of the entry that produced it
    assembled,       \* history: the chapter list as it was before post-processing
    processed_files, \* EpubExporterV2 only: names and name#fragment keys already emitted
    epub,            \* the file at epub_path: [exists, readable], never written
    loaded,          \* self.book is set (load_epub has succeeded)
    script,          \* the calls of public methods the caller has still to make
    method,          \* the public method called last ("" before the first call)
    returned,        \* history: the normal returns to the caller, [method, value]
    output,          \* the output directory: [made, images, files]
    attempts         \* history: the iterations of the export loop of the last export

\* EpubExporterGUI (src/epub_gui.py): the fields of the window, the message queue and
\* the background threads
VARIABLES
    epub_file_path,     \* the path in the file entry ("" when empty)
    output_dir_path,    \* the path in the output entry ("" when empty)
    export_btn,         \* state of the Start button: "normal" or "disabled"
    stop_btn,           \* state of the Stop button
    progress_var,       \* the progress bar, 0..100
    status_var,         \* the status line
    chapter_tree,       \* the rows of the chapter list: the chapter number of each row
    chapter_selections, \* for each row of the list, whether it is ticked
    chapters_data,      \* the chapters of the last preview shown
    message_queue,      \* messages from the threads to the window, oldest first
    threads             \* the background threads started so far, by number

window == <<epub_file_path, output_dir_path, export_btn, stop_btn, progress_var, status_var,
            chapter_tree, chapter_selections, chapters_data, message_queue, threads>>

\* the window as its constructor leaves it (__init__, create_control_area)
Unopened ==
    /\ epub_file_path = ""
    /\ output_dir_path = ""
    /\ export_btn = "normal"
    /\ stop_btn = "disabled"
    /\ progress_var = 0
    /\ status_var = "ready"
    /\ chapter_tree = <<>>
    /\ chapter_selections = <<>>
    /\ chapters_data = <<>>
    /\ message_queue = <<>>
    /\ threads = <<>>

\* the state outside get_chapters: the file, the exporter object, its caller, the disk
lifecycle == <<epub, loaded, script, method, returned, output, attempts, window>>

vars == <<book, pc, all_items, idx, chapters, src, assembled, processed_files, lifecycle>>

Item(id, name, type, content, decodable) ==
    [id |-> id, name |-> name, type |-> type, content |-> content, decodable |-> decodable]

Node(title, href, children) == [title |-> title, href |-> href, children |-> children]

RECURSIVE collect_items(_, _), collect_list(_, _)
\* variant of collect_items that lists the children before the node
collect_items_children_first(toc, n) == collect_list(toc, toc.nodes[n].children) \o <<n>>

\* collect_items: a node, then its children in list order
collect_items(toc, n) == <<n>> \o collect_list(toc, toc.nodes[n].children)

collect_list(toc, ns) ==
    IF ns = <<>> THEN <<>> ELSE collect_items(toc, Head(ns)) \o collect_list(toc, Tail(ns))

\* all_items after "for item in toc: collect_items(item)", as node numbers
FlatToc(toc) == collect_list(toc, toc.roots)

NodesAt(toc, order) == [k \in 1..Len(order) |-> toc.nodes[order[k]]]

Entries(toc) == NodesAt(toc, FlatToc(toc))

\* _get_item_by_id: the first manifest item with this id, 0 when there is none
get_item_by_id(items, item_id) ==
    Min({i \in 1..Len(items) : items[i].id = item_id} \cup {Len(items) + 1}) % (Len(items) + 1)

\* next_href for position i of all_items
NextHref(items_list, i) == IF i + 1 <= Len(items_list) THEN items_list[i + 1].href ELSE <<>>

\* variant of SpineDocChapter without the "if content.strip()" test
SpineDocChapterUntested(item, item_id, n) ==
    IF item.type # "document" THEN <<>>
    ELSE IF ~item.decodable THEN <<>>
    ELSE <<Chapter(OrElse(extract_title_from_content(item.content), Placeholder(n + 1)),
                   item.content, item_id)>>

\* the chapter made of a spine document (0 or 1 chapters); n = len(chapters) before
SpineDocChapter(item, item_id, n) ==
    IF item.type # "document" THEN <<>>
    ELSE IF ~item.decodable THEN <<>>                      \* except Exception: skipped
    ELSE IF Strip(item.content) = <<>> THEN <<>>
    ELSE <<Chapter(OrElse(extract_title_from_content(item.content), Placeholder(n + 1)),
                   item.content, item_id)>>

\* the chapter a spine entry yields in _extract_from_spine, as a sequence of 0 or 1
\* chapters.  The linear flag of the entry is not read.
SpineChapter(items, entry, n) ==
    IF get_item_by_id(items, entry.id) = 0 THEN <<>>
    ELSE SpineDocChapter(items[get_item_by_id(items, entry.id)], entry.id, n)

\* variant of TocChapter that takes the title of the entry as it is
TocChapterUntitled(content, entry, n) ==
    IF content.kind = "str" /\ content.val # <<>>
    THEN <<Chapter(entry.title, content.val, entry.href)>>
    ELSE <<>>

\* the chapter a navigation entry yields in _extract_from_toc (0 or 1 chapters)
TocChapter(content, entry, n) ==
    IF content.kind = "str" /\ content.val # <<>>
    THEN <<Chapter(OrElse(entry.title, Placeholder(n + 1)), content.val, entry.href)>>
    ELSE <<>>

\* variant of PostProcessed without the identical-content check
PostProcessedSkipped(chs) == chs

\* the post-processing of get_chapters (split_chapters is never empty)
PostProcessed(chs) ==
    IF AllIdentical(chs) THEN OrElse(split_content_by_headings(chs[1].content), chs) ELSE chs

(***************************************************************************)
(* EpubExporter.get_chapters, one action per step                          *)
(***************************************************************************)
\* lines 62-78: choose navigation or spine assembly
ChooseSource ==
    /\ pc = "start"
    /\ IF book.toc.roots # <<>>
       THEN /\ all_items' = Entries(book.toc)
            /\ pc' = "toc"
       ELSE /\ all_items' = <<>>
            /\ pc' = IF book.spine = <<>> THEN "post" ELSE "spine"
    /\ idx' = 1
    /\ UNCHANGED <<book, chapters, src, assembled, processed_files, lifecycle>>

\* the effect of one navigation entry whose content resolved to `content`
TocResult(content, new) ==
    IF content.kind = "raise"
    THEN /\ pc' = "raised"
         /\ UNCHANGED <<idx, chapters, src>>
    ELSE /\ chapters' = chapters \o new
         /\ src' = IF new = <<>> THEN src ELSE Append(src, idx)
         /\ idx' = idx + 1
         /\ pc' = IF idx = Len(all_items) THEN "post" ELSE "toc"

TocResolved(content) == TocResult(content, TocChapter(content, all_items[idx], Len(chapters)))

\* one iteration of the loop of _extract_from_toc
TocEntry ==
    /\ pc = "toc"
    /\ TocResolved(get_item_content(book.items, all_items[idx].href, NextHref(all_items, idx)))
    /\ UNCHANGED <<book, all_items, assembled, processed_files, lifecycle>>

SpineResult(new) ==
    /\ chapters' = chapters \o new
    /\ src' = IF new = <<>> THEN src ELSE Append(src, idx)

\* one iteration of the loop of _extract_from_spine
SpineEntry ==
    /\ pc = "spine"
    /\ SpineResult(SpineChapter(book.items, book.spine[idx], Len(chapters)))
    /\ idx' = idx + 1
    /\ pc' = IF idx = Len(book.spine) THEN "post" ELSE "spine"
    /\ UNCHANGED <<book, all_items, assembled, processed_files, lifecycle>>

\* lines 89-99: the identical-content check, the re-split and the return
PostProcess ==
    /\ pc = "post"
    /\ assembled' = chapters
    /\ chapters' = PostProcessed(chapters)
    /\ pc' = "done"
    /\ UNCHANGED <<book, all_items, idx, src, processed_files, lifecycle>>

(***************************************************************************)
(* The exporter object and its caller: __init__, load_epub, and the public *)
(* methods get_chapters and export_chapters.  pc = "new" is before the     *)
(* constructor, "idle" between calls, "raised" after an exception has      *)
(* escaped to the caller.                                                  *)
(***************************************************************************)
\* lines 35-36: the constructor raises FileNotFoundError for a missing path
Construct ==
    /\ pc = "new"
    /\ pc' = IF epub.exists THEN "idle" ELSE "raised"
    /\ UNCHANGED <<book, all_items, idx, chapters, src, assembled, processed_files, lifecycle>>

\* variant of BookAvailable in which a failed read goes unnoticed
BookAvailableAlways(is_loaded, readable) == TRUE

\* lines 56-57 and 38-44, "if not self.book: self.load_epub()": TRUE when the book
\* is set afterwards, FALSE when load_epub raises
BookAvailable(is_loaded, readable) == is_loaded \/ readable

\* variant of FreshChapters that goes on with the list of the previous call
FreshChaptersKept(previous) == previous

\* line 62, "chapters = []"
FreshChapters(previous) == <<>>

\* lines 56-62: the entry of get_chapters
EnterGetChapters ==
    /\ loaded' = BookAvailable(loaded, epub.readable)
    /\ pc' = IF BookAvailable(loaded, epub.readable) THEN "start" ELSE "raised"
    /\ chapters' = FreshChapters(chapters)
    /\ all_items' = <<>>
    /\ idx' = 1
    /\ src' = <<>>
    /\ assembled' = <<>>

\* the caller calls get_chapters
CallGetChapters ==
    /\ pc = "idle" /\ script # <<>> /\ Head(script) = "get_chapters"
    /\ method' = "get_chapters"
    /\ script' = Tail(script)
    /\ EnterGetChapters
    /\ UNCHANGED <<book, processed_files, epub, returned, output, attempts, window>>

\* the caller calls export_chapters: lines 550-553, output_path.mkdir and the call
\* of get_chapters
CallExportChapters ==
    /\ pc = "idle" /\ script # <<>> /\ Head(script) = "export_chapters"
    /\ method' = "export_chapters"
    /\ script' = Tail(script)
    /\ output' = [output EXCEPT !.made = TRUE]
    /\ attempts' = <<>>
    /\ EnterGetChapters
    /\ UNCHANGED <<book, processed_files, epub, returned, window>>

\* a normal return of a public method to the caller
Return(name, value) == Append(returned, [method |-> name, value |-> value])

\* line 99: get_chapters returns the list to the caller
ReturnChapters ==
    /\ pc = "done" /\ method = "get_chapters"
    /\ returned' = Return("get_chapters", chapters)
    /\ pc' = "idle"
    /\ UNCHANGED <<book, all_items, idx, chapters, src, assembled, processed_files,
                   epub, loaded, script, method, output, attempts, window>>

\* lines 555-557: "if not chapters: return"
ExportNothing ==
    /\ pc = "done" /\ method = "export_chapters"
    /\ chapters = <<>>
    /\ returned' = Return("export_chapters", <<>>)
    /\ pc' = "idle"
    /\ UNCHANGED <<book, all_items, idx, chapters, src, assembled, processed_files,
                   epub, loaded, script, method, output, attempts, window>>

\* the names of the image items of the manifest
ImageNames(items) == {items[i].name : i \in {j \in 1..Len(items) : items[j].type = "image"}}

\* lines 561-564 and _export_images: every image item is written under the output
\* directory; a write that raises is logged and the image left out
ExportImages ==
    /\ pc = "done" /\ method = "export_chapters"
    /\ chapters # <<>>
    /\ \E written \in SUBSET ImageNames(book.items) :
          output' = [output EXCEPT !.images = @ \cup written]
    /\ pc' = "export"
    /\ idx' = 1
    /\ UNCHANGED <<book, all_items, chapters, src, assembled, processed_files,
                   epub, loaded, script, method, returned, attempts, window>>

\* _export_single_chapter: the except branch (lines 688-691) runs when the
\* conversion or the write of the converted text raised
NeedsFallback(convert, write) == convert = "fail" \/ write = "fail"

\* one iteration of the export loop, given the outcomes of pypandoc.convert_text, of
\* the write of the converted text and of the write of _fallback_export
ExportAttempt(index, chapter, convert, write, fallback) ==
    [index    |-> index,
     id       |-> chapter.id,
     convert  |-> convert,
     write    |-> IF convert = "ok" THEN write ELSE "none",
     fallback |-> IF NeedsFallback(convert, write) THEN fallback ELSE "none"]

\* the chapter files written completely, by index prefix (f"{index:02d}_") and by the
\* method that wrote them, after the attempt; a failed write leaves no complete file
FilesAfter(files, attempt) ==
    {f \in files : f.index # attempt.index}
        \cup (IF attempt.write = "ok" THEN {[index |-> attempt.index, via |-> "pandoc"]}
              ELSE IF attempt.fallback = "ok" THEN {[index |-> attempt.index, via |-> "plain"]}
              ELSE {})

\* variant of ExportNext in which a failed fallback ends the export
ExportNextAborting(i, n, fallback) ==
    IF fallback = "fail" THEN "raised" ELSE IF i = n THEN "idle" ELSE "export"

\* lines 570-582: after chapter i of n the loop goes on, whatever the outcome, and
\* export_chapters returns after the last one
ExportNext(i, n, fallback) == IF i = n THEN "idle" ELSE "export"

ExportStep(attempt) ==
    /\ attempts' = Append(attempts, attempt)
    /\ output' = [output EXCEPT !.files = FilesAfter(@, attempt)]
    /\ pc' = ExportNext(idx, Len(chapters), attempt.fallback)
    /\ returned' = IF ExportNext(idx, Len(chapters), attempt.fallback) = "idle"
                   THEN Return("export_chapters", <<>>) ELSE returned

\* one iteration of the loop of export_chapters (lines 570-580), with
\* _export_single_chapter and _fallback_export
ExportChapter ==
    /\ pc = "export"
    /\ \E convert, write, fallback \in {"ok", "fail"} :
          ExportStep(ExportAttempt(idx, chapters[idx], convert, write, fallback))
    /\ idx' = idx + 1
    /\ UNCHANGED <<book, all_items, chapters, src, assembled, processed_files,
                   epub, loaded, script, method, window>>

Next ==
    \/ Construct \/ CallGetChapters \/ CallExportChapters
    \/ ChooseSource \/ TocEntry \/ SpineEntry \/ PostProcess
    \/ ReturnChapters \/ ExportNothing \/ ExportImages \/ ExportChapter

(***************************************************************************)
(* EpubExporterV2 (src/epub_exporter_v2.py)                                *)
(***************************************************************************)
\* len(processed_content) a fragment's slice must exceed to become a chapter
MinAnchorChars == 500

\* characters skipped before the search for the next heading (start_pos + 100)
SkipCharsV2 == 100

\* f"章节 {n}"
PlaceholderV2(n) == <<Sym("章节 "), Sym(Num(n))>>

\* <[^>]+ATTR=["']?<anchor>["']?[^>]*> with re.IGNORECASE: index of the first '<'
\* that is followed, before any '>', by the attribute beginning with the anchor and
\* later by a '>'; 0 when there is none
TagWith(content, attr, anchor) ==
    Min({i \in 1..Len(content) :
            /\ StartsLT(content[i]) /\ ~HasGT(content[i])
            /\ \E j \in (i + 1)..Len(content) :
                  /\ content[j].kind = attr
                  /\ IsPrefix(LowerSeq(anchor), LowerSeq(content[j].val))
                  /\ \A k \in i..j : ~HasGT(content[k])
                  /\ \E k \in (j + 1)..Len(content) : HasGT(content[k])}
            \cup {Len(content) + 1}) % (Len(content) + 1)

\* first h1-h4 opening tag at or after character offset `off`, else len(content)
NextHeadingV2(content, off) ==
    Min({i \in 1..Len(content) : Pos(content, i) >= off /\ IsHeading14(content[i])}
            \cup {Len(content) + 1})

\* the slice from the tag at token `start`; None (<<>>) when no pattern matched
AnchorSliceV2(content, start) ==
    IF start = 0 THEN <<>>
    ELSE Strip(Slice(content, start,
                     NextHeadingV2(content, Pos(content, start) + SkipCharsV2) - 1))

\* _simple_anchor_processing: the id pattern, then the name pattern
simple_anchor_processing(content, anchor) ==
    AnchorSliceV2(content, FoundOr(TagWith(content, "id", anchor),
                                   TagWith(content, "name", anchor)))

\* the chapter list and the set processed_files after an entry
OutV2(chs, pf) == [chapters |-> chs, processed |-> pf]

\* chapters.append((title, content, key)); processed_files.add(key)
EmitV2(chs, pf, title, content, key) ==
    OutV2(Append(chs, Chapter(title, content, key)), pf \cup {key})

\* the whole document, unless the resource name has been emitted
WholeFileV2(chs, pf, title, content, file_name) ==
    IF file_name \notin pf THEN EmitV2(chs, pf, title, content, file_name) ELSE OutV2(chs, pf)

\* f"{file_name}#{anchor}"
FileKey(file_name, anchor) == file_name \o <<"#">> \o anchor

\* variant of AnchorEntryV2 without the "file_key in processed_files" test
AnchorEntryV2Unkeyed(chs, pf, title, content, file_name, file_key, processed_content) ==
    IF processed_content # <<>> /\ CharLen(processed_content) > MinAnchorChars
    THEN EmitV2(chs, pf, title, processed_content, file_key)
    ELSE WholeFileV2(chs, pf, title, content, file_name)

\* lines 160-186: an entry with a fragment, whose slice is processed_content
AnchorEntryV2(chs, pf, title, content, file_name, file_key, processed_content) ==
    IF file_key \in pf THEN OutV2(chs, pf)
    ELSE IF processed_content # <<>> /\ CharLen(processed_content) > MinAnchorChars
         THEN EmitV2(chs, pf, title, processed_content, file_key)
         ELSE WholeFileV2(chs, pf, title, content, file_name)

\* lines 152-195, for the document found and the title chosen
DocEntryV2(item, href, title, chs, pf) ==
    IF ~item.decodable THEN OutV2(chs, pf)                 \* except Exception: return
    ELSE IF AnchorOf(href) # <<>>
         THEN AnchorEntryV2(chs, pf, title, item.content, FileOf(href),
                            FileKey(FileOf(href), AnchorOf(href)),
                            simple_anchor_processing(item.content, AnchorOf(href)))
         ELSE WholeFileV2(chs, pf, title, item.content, FileOf(href))

\* _process_single_toc_entry
process_single_toc_entry(items, entry, chs, pf) ==
    IF DocItem(items, FileOf(entry.href)) = 0 THEN OutV2(chs, pf)
    ELSE DocEntryV2(items[DocItem(items, FileOf(entry.href))], entry.href,
                    OrElse(entry.title, PlaceholderV2(Len(chs) + 1)), chs, pf)

\* process_toc_item on one node: entries without an href are passed over
process_toc_item(items, entry, chs, pf) ==
    IF entry.href = <<>> THEN OutV2(chs, pf)
    ELSE process_single_toc_entry(items, entry, chs, pf)

\* _extract_title_from_content of EpubExporterV2: as in EpubExporter, with the
\* entities of the title decoded
extract_title_from_content_v2(content) ==
    OrElse(unescape(FirstInner(content, FindHeadings(content, 1..6, FALSE))),
           unescape(FirstInner(content, TitleElement(content))))

\* "if not linear": the flag is the string of the OPF attribute
NotLinear(linear) == linear = ""

SpineDocChapterV2(item, item_id, n) ==
    IF item.type # "document" THEN <<>>
    ELSE IF ~item.decodable THEN <<>>
    ELSE IF Strip(item.content) = <<>> THEN <<>>
    ELSE <<Chapter(OrElse(extract_title_from_content_v2(item.content), PlaceholderV2(n + 1)),
                   item.content, item_id)>>

\* the chapter a spine entry yields in _extract_from_spine_standard (0 or 1 chapters)
SpineChapterV2(items, entry, n) ==
    IF NotLinear(entry.linear) THEN <<>>
    ELSE IF get_item_by_id(items, entry.id) = 0 THEN <<>>
    ELSE SpineDocChapterV2(items[get_item_by_id(items, entry.id)], entry.id, n)

\* lines 64-70: the navigation tree is tried first when there is one
ChooseSourceV2 ==
    /\ pc = "start"
    /\ IF book.toc.roots # <<>>
       THEN /\ all_items' = Entries(book.toc)
            /\ pc' = "toc"
       ELSE /\ all_items' = <<>>
            /\ pc' = "fallback"
    /\ idx' = 1
    /\ UNCHANGED <<book, chapters, src, assembled, processed_files, lifecycle>>

TocResultV2(out) ==
    /\ chapters' = out.chapters
    /\ processed_files' = out.processed
    /\ src' = IF Len(out.chapters) > Len(chapters) THEN Append(src, idx) ELSE src

\* one navigation entry of _extract_from_toc_standard, in traversal order
TocEntryV2 ==
    /\ pc = "toc"
    /\ TocResultV2(process_toc_item(book.items, all_items[idx], chapters, processed_files))
    /\ idx' = idx + 1
    /\ pc' = IF idx = Len(all_items) THEN "fallback" ELSE "toc"
    /\ UNCHANGED <<book, all_items, assembled, lifecycle>>

\* lines 72-76: "if not chapters", the spine is used
FallbackV2 ==
    /\ pc = "fallback"
    /\ assembled' = chapters
    /\ pc' = IF chapters = <<>> /\ book.spine # <<>> THEN "spine" ELSE "done"
    /\ idx' = 1
    /\ UNCHANGED <<book, all_items, chapters, src, processed_files, lifecycle>>

\* one iteration of the loop of _extract_from_spine_standard
SpineEntryV2 ==
    /\ pc = "spine"
    /\ SpineResult(SpineChapterV2(book.items, book.spine[idx], Len(chapters)))
    /\ idx' = idx + 1
    /\ pc' = IF idx = Len(book.spine) THEN "done" ELSE "spine"
    /\ UNCHANGED <<book, all_items, assembled, processed_files, lifecycle>>

NextV2 == ChooseSourceV2 \/ TocEntryV2 \/ FallbackV2 \/ SpineEntryV2

(***************************************************************************)
(* Archives the runs start from.  Four bounded families, each wide in one  *)
(* dimension: navigation shapes, spines, documents with positional         *)
(* markers, documents with headings.                                       *)
(***************************************************************************)
MaxToc == 3

MaxSpine == 3

MaxFlat == 2

MaxBlocks == 3

A == <<"a">>

B == <<"b">>

C == <<"c">>

Frag(file, anchor) == file \o <<"#">> \o anchor

Mark(attr) == <<"<a", " ", attr, ">">>

DocPlain == Toks(<<"x">>)

DocMarked == Toks(Mark("id='filepos1'") \o <<"x", " ">> \o Mark("id='filepos2'") \o <<"y">>)

DocHeads == Toks(<<"<h1>", "x", "</h1>", " ", "<h2>", "y", "</h2>">>)

\* the manifest: documents a and b, an image c
Items(docA, docB, decodableB) ==
    << Item(<<"ida">>, A, "document", docA, TRUE),
       Item(<<"idb">>, B, "document", docB, decodableB),
       Item(<<"idc">>, C, "image", DocPlain, TRUE) >>

Libraries ==
    { Items(DocMarked, DocPlain, TRUE),
      Items(DocPlain, DocPlain, TRUE),
      Items(DocHeads, DocHeads, TRUE),
      Items(DocMarked, <<>>, TRUE),
      Items(DocMarked, DocPlain, FALSE) }

SpineOf(ids) == [k \in 1..Len(ids) |-> [id |-> ids[k], linear |-> "yes"]]

DefaultSpine == SpineOf(<< <<"ida">>, <<"idb">> >>)

EmptyToc == [roots |-> <<>>, nodes |-> <<>>]

\* the members of a set of numbers in ascending order
RECURSIVE Ascending(_)
Ascending(S) == IF S = {} THEN <<>> ELSE <<Min(S)>> \o Ascending(S \ {Min(S)})

\* the forest in which node k hangs under par[k] (0: top level), children by number
Forest(par, hrefs, untitled) ==
    [roots |-> Ascending({k \in 1..Len(par) : par[k] = 0}),
     nodes |-> [k \in 1..Len(par) |->
                   Node(IF k = untitled THEN <<>> ELSE <<Sym("T"), Sym(Num(k))>>,
                        hrefs[k],
                        Ascending({c \in 1..Len(par) : par[c] = k}))]]

Parents(n) == {par \in [1..n -> 0..n] : \A k \in 1..n : par[k] < k}

HrefsShapes == {A, Frag(A, <<"filepos", "1">>), B, C}

\* the libraries the navigation shapes are run over: B readable, B undecodable
LibrariesShapes == {Items(DocMarked, DocPlain, TRUE), Items(DocMarked, DocPlain, FALSE)}

SpineEntries ==
    {[id |-> i, linear |-> l] : i \in {<<"ida">>, <<"idb">>}, l \in {"yes", "no"}}
        \cup {[id |-> <<"idc">>, linear |-> "yes"], [id |-> <<"zz">>, linear |-> "yes"]}

FlatForest(hrefs) == Forest([k \in 1..Len(hrefs) |-> 0], hrefs, 0)

HrefsMarkers == {Frag(A, <<"filepos", "1">>), Frag(A, <<"filepos", "2">>)}

BlocksMarkers ==
    { Mark("id='filepos1'"), Mark("id='filepos2'"), Mark("id='filepos10'"),
      <<"X120">>, <<"<h2>", "x", "</h2>">>,
      <<"X120", "<h2>", "x", "</h2>">> }

BlocksHeadings ==
    { <<"<h1>", "x", "</h1>">>,
      <<"<h2>", " ", "&amp;", "<b>", "y", "</b>", " ", "</h2>">>,
      <<"<h2>", "<b>", "</b>", "</h2>">>,
      <<"<h4>", "y", "</h4>">>,
      <<"x", " ">>,
      <<"#", " ", "x", "<b>">>,
      <<"Chapter", " ", "1", "<b>">>,
      <<"1", ".", "y", "<b>">> }

\* the document made of a sequence of blocks
Doc(bs) == Toks(Flat(bs))

\* the archive behind epub_path, and the locals of get_chapters before any call
Archive(items, toc, spine) ==
    /\ book = [items |-> items, toc |-> toc, spine |-> spine]
    /\ all_items = <<>>
    /\ idx = 1
    /\ chapters = <<>>
    /\ src = <<>>
    /\ assembled = <<>>
    /\ processed_files = {}

\* the file, the exporter object and the calls its caller is going to make
Surroundings(exists, readable, is_loaded, calls, current) ==
    /\ epub = [exists |-> exists, readable |-> readable]
    /\ loaded = is_loaded
    /\ script = calls
    /\ method = current
    /\ returned = <<>>
    /\ output = [made |-> FALSE, images |-> {}, files |-> {}]
    /\ attempts = <<>>
    /\ Unopened

\* inside get_chapters of an exporter whose book is loaded
Start(items, toc, spine) ==
    /\ Archive(items, toc, spine)
    /\ pc = "start"
    /\ Surroundings(TRUE, TRUE, TRUE, <<>>, "get_chapters")

\* an exporter constructed over a readable file, before its one call of get_chapters
Constructed(items, toc, spine) ==
    /\ Archive(items, toc, spine)
    /\ pc = "idle"
    /\ Surroundings(TRUE, TRUE, FALSE, <<"get_chapters">>, "")

\* every forest of up to MaxToc nodes; the last node may lack a title
InitShapes ==
    \E items \in LibrariesShapes, n \in 1..MaxToc :
        \E par \in Parents(n), hrefs \in [1..n -> HrefsShapes], u \in {0, n} :
            Constructed(items, Forest(par, hrefs, u), DefaultSpine)

InitSpines ==
    \E items \in Libraries, spine \in SeqsUpTo(SpineEntries, MaxSpine) :
        Constructed(items, EmptyToc, spine)

InitMarkers ==
    \E bs \in SeqsUpTo(BlocksMarkers, MaxBlocks), hrefs \in SeqsUpTo(HrefsMarkers, MaxFlat) :
        /\ hrefs # <<>>
        /\ Constructed(Items(Doc(bs), DocPlain, TRUE), FlatForest(hrefs), DefaultSpine)

InitHeadings ==
    \E bs \in SeqsUpTo(BlocksHeadings, MaxBlocks) :
        Constructed(Items(Doc(bs), DocPlain, TRUE), FlatForest(<<A, A>>), DefaultSpine)

\* what may follow a marker and more than SkipChars characters of text: the three
\* kinds of section start, a heading of a level that is none, and text
BlocksSections ==
    { Mark("id='filepos2'"), <<"<h2>", "x", "</h2>">>, <<"<div class='chapter'>">>,
      <<"<h5>", "x", "</h5>">>, <<"x">> }

InitSections ==
    \E bs \in SeqsUpTo(BlocksSections, MaxBlocks),
       hrefs \in {<<Frag(A, <<"filepos", "1">>)>>, <<Frag(A, <<"filepos", "1">>), B>>} :
        Constructed(Items(Doc(<<Mark("id='filepos1'"), <<"X120">> >> \o bs), DocPlain, TRUE),
                    FlatForest(hrefs), DefaultSpine)

\* what a document with identifier fragments is made of: tags with an id, headings
\* of a level that ends a slice and of one that does not, and text
BlocksAnchors ==
    { Mark("id='sec'"), Mark("id='sec2'"), <<"<h2>", "x", "</h2>">>,
      <<"<h5>", "x", "</h5>">>, <<" ", "x", " ">> }

HrefsAnchors ==
    { <<Frag(A, <<"sec">>)>>, <<Frag(A, <<"sec", "2">>)>>,
      <<Frag(A, <<"sec">>), Frag(A, <<"sec", "2">>)>> }

InitAnchors ==
    \E bs \in SeqsUpTo(BlocksAnchors, MaxBlocks), hrefs \in HrefsAnchors :
        Constructed(Items(Doc(bs), DocPlain, TRUE), FlatForest(hrefs), DefaultSpine)

\* what a long document without the marker looked for is made of: more than
\* SmartSplitMin characters of text, headings of levels 1-4 with and without space
\* after them, a heading of level 5, a marker of a longer fragment, and text
BlocksLong ==
    { <<"X10000">>, <<"<h2>", "x", "</h2>">>, <<"<h4>", "y", "</h4>", " ">>,
      <<"<h5>", "x", "</h5>">>, Mark("id='filepos10'"), <<"x">> }

InitLong ==
    \E bs \in SeqsUpTo(BlocksLong, MaxBlocks),
       hrefs \in {<<Frag(A, <<"filepos", "1">>)>>, <<Frag(A, <<"filepos", "1">>), B>>} :
        Constructed(Items(Doc(bs), DocPlain, TRUE), FlatForest(hrefs), DefaultSpine)

\* the limit on the calls a caller makes on one exporter
MaxCalls == 2

Methods == {"get_chapters", "export_chapters"}

\* a library in which nothing resolves: a is empty, b is not UTF-8, c is an image
ItemsUnresolvable == Items(<<>>, DocPlain, FALSE)

LibrariesCalls == {Items(DocMarked, DocPlain, TRUE), Items(DocHeads, DocHeads, TRUE),
                   ItemsUnresolvable}

TocsCalls ==
    {EmptyToc, FlatForest(<<C>>), FlatForest(<<B>>), FlatForest(<<A, B>>),
     FlatForest(<<Frag(A, <<"filepos", "1">>), Frag(A, <<"filepos", "2">>)>>)}

SpinesCalls == {DefaultSpine, SpineOf(<< <<"idc">> >>)}

\* before the constructor: the path may be missing, the file unreadable, and the
\* caller makes up to MaxCalls calls
InitCalls ==
    \E items \in LibrariesCalls, toc \in TocsCalls, spine \in SpinesCalls,
       exists \in BOOLEAN, readable \in BOOLEAN, calls \in SeqsUpTo(Methods, MaxCalls) :
        /\ readable => exists
        /\ calls # <<>>
        /\ Archive(items, toc, spine)
        /\ pc = "new"
        /\ Surroundings(exists, readable, FALSE, calls, "")

Init ==
    \/ InitShapes \/ InitSpines \/ InitMarkers \/ InitHeadings \/ InitSections
    \/ InitAnchors \/ InitLong \/ InitCalls

Spec == Init /\ [][Next]_vars

(***************************************************************************)
(* Archives the runs of EpubExporterV2 start from                          *)
(***************************************************************************)
MaxTocV2 == 3

Sec == <<"sec">>

\* two fragments, each followed by more than MinAnchorChars characters
DocLong ==
    Toks(Mark("id='sec'") \o <<"X600", " ">> \o Mark("name='filepos1'") \o <<"X600">>)

LibrariesV2 ==
    { Items(DocLong, DocMarked, TRUE),
      Items(DocLong, DocPlain, FALSE),
      Items(DocMarked, <<>>, TRUE) }

HrefsV2 ==
    {A, Frag(A, Sec), Frag(A, <<"filepos", "1">>), B, Frag(B, <<"filepos", "1">>), C, <<>>}

\* a nested tree: node 1 with children 2 and 3
NestedV2 ==
    {Forest(<<0, 1, 1>>, <<h1, h2, h3>>, 0) :
        h1 \in {A, <<>>}, h2 \in {Frag(A, Sec), B}, h3 \in {A, Frag(A, Sec)}}

InitTocV2 ==
    \E items \in LibrariesV2 :
        \/ \E hrefs \in SeqsUpTo(HrefsV2, MaxTocV2), u \in {0, 1} :
              /\ hrefs # <<>>
              /\ Start(items, Forest([k \in 1..Len(hrefs) |-> 0], hrefs, u), DefaultSpine)
        \/ \E toc \in NestedV2 : Start(items, toc, DefaultSpine)

InitSpineV2 ==
    \E items \in LibrariesV2, toc \in {EmptyToc, FlatForest(<<C>>)},
       spine \in SeqsUpTo(SpineEntries, MaxSpine) :
        Start(items, toc, spine)

InitV2 == InitTocV2 \/ InitSpineV2

SpecV2 == InitV2 /\ [][NextV2]_vars

(***************************************************************************)
(* EpubExporterGUI (src/epub_gui.py).  The handlers of the window run on   *)
(* the Tk main thread, one at a time, so each is one action; a background  *)
(* thread takes one step per read of the window or decision it makes, and  *)
(* the messages it puts in one step stay together on the queue.  The       *)
(* exporter                                                                *)
(* a thread builds is private to it; what get_chapters returns for a file  *)
(* is fixed per file (BookChapters).  The log widget is only written to    *)
(* and is left out; a message box is closed within the handler that opens  *)
(* it.                                                                     *)
(***************************************************************************)
\* the limit on the background threads started in one run
MaxThreads == 2

\* the EPUB files the file dialog offers; they exist throughout
Files == {"f1", "f2"}

\* what EpubExporter(path).get_chapters() returns: two chapters for f1, none for f2
BookChapters(path) ==
    CASE path = "f1" -> << Chapter(Placeholder(1), Toks(<<"x">>), <<"a">>),
                           Chapter(Placeholder(2), Toks(<<"y">>), <<"b">>) >>
      [] OTHER -> <<>>

\* epub_path.parent / epub_path.stem; directories are not told apart
DefaultDir(path) == "dir"

\* the state of the exporter model is not part of the window
core == <<book, pc, all_items, idx, chapters, src, assembled, processed_files,
          epub, loaded, script, method, returned, output, attempts>>

\* the widgets a message from the queue may change
Widgets ==
    [export_btn |-> export_btn, stop_btn |-> stop_btn,
     progress_var |-> progress_var, status_var |-> status_var,
     chapter_tree |-> chapter_tree, chapter_selections |-> chapter_selections,
     chapters_data |-> chapters_data]

\* the widgets become w
Shown(w) ==
    /\ export_btn' = w.export_btn
    /\ stop_btn' = w.stop_btn
    /\ progress_var' = w.progress_var
    /\ status_var' = w.status_var
    /\ chapter_tree' = w.chapter_tree
    /\ chapter_selections' = w.chapter_selections
    /\ chapters_data' = w.chapters_data

\* variant of reset_ui_state that leaves the buttons as they are
reset_ui_state_status_only(w) == [w EXCEPT !.progress_var = 0, !.status_var = "ready"]

reset_ui_state(w) ==
    [w EXCEPT !.export_btn = "normal", !.stop_btn = "disabled",
              !.progress_var = 0, !.status_var = "ready"]

\* the old rows are deleted and one unticked row is made per chapter
update_chapter_list(w, new_chapters) ==
    [w EXCEPT !.chapter_tree = [i \in 1..Len(new_chapters) |-> i],
              !.chapter_selections = [i \in 1..Len(new_chapters) |-> FALSE],
              !.chapters_data = new_chapters,
              !.status_var = "preview done"]

\* the branch of process_queue for one message
Handled(w, message) ==
    CASE message.type = "chapters_loaded" -> update_chapter_list(w, message.data)
      [] message.type = "log" -> w
      [] message.type = "progress" -> [w EXCEPT !.progress_var = message.data]
      [] message.type = "status" -> [w EXCEPT !.status_var = message.data]
      [] message.type = "error" -> reset_ui_state(w)
      [] message.type = "export_complete" ->
            reset_ui_state([w EXCEPT !.status_var = "export done"])

\* the loop of process_queue: the messages are handled oldest first
RECURSIVE Drained(_, _)
Drained(w, messages) ==
    IF messages = <<>> THEN w ELSE Drained(Handled(w, Head(messages)), Tail(messages))

\* the periodic callback: it empties the queue (with an empty queue it does nothing)
process_queue ==
    /\ message_queue # <<>>
    /\ Shown(Drained(Widgets, message_queue))
    /\ message_queue' = <<>>
    /\ UNCHANGED <<core, epub_file_path, output_dir_path, threads>>

\* the file dialog returns file_path (a cancelled dialog changes nothing)
browse_epub_file ==
    /\ \E file_path \in Files :
          /\ epub_file_path' = file_path
          /\ output_dir_path' = IF output_dir_path = "" THEN DefaultDir(file_path)
                                ELSE output_dir_path
    /\ UNCHANGED <<core, export_btn, stop_btn, progress_var, status_var, chapter_tree,
                   chapter_selections, chapters_data, message_queue, threads>>

\* the folder dialog returns a directory (a cancelled dialog changes nothing)
browse_output_dir ==
    /\ output_dir_path' = "dir"
    /\ UNCHANGED <<core, epub_file_path, export_btn, stop_btn, progress_var, status_var,
                   chapter_tree, chapter_selections, chapters_data, message_queue, threads>>

\* a thread that has just been started
Thread(kind, epub_path, output_dir) ==
    [kind |-> kind, epub_path |-> epub_path, output_dir |-> output_dir,
     at |-> "begin", chapters |-> <<>>, i |-> 1]

\* with no file chosen the handler only shows a warning
preview_chapters ==
    /\ epub_file_path # ""
    /\ Len(threads) < MaxThreads
    /\ status_var' = "loading"
    /\ threads' = Append(threads, Thread("load", epub_file_path, ""))
    /\ UNCHANGED <<core, epub_file_path, output_dir_path, export_btn, stop_btn, progress_var,
                   chapter_tree, chapter_selections, chapters_data, message_queue>>

\* with no file chosen the handler only shows a warning
debug_epub_structure ==
    /\ epub_file_path # ""
    /\ Len(threads) < MaxThreads
    /\ threads' = Append(threads, Thread("debug", epub_file_path, ""))
    /\ UNCHANGED <<core, epub_file_path, output_dir_path, export_btn, stop_btn, progress_var,
                   status_var, chapter_tree, chapter_selections, chapters_data, message_queue>>

Ticked(selections) ==
    /\ chapter_selections' = selections
    /\ UNCHANGED <<core, epub_file_path, output_dir_path, export_btn, stop_btn, progress_var,
                   status_var, chapter_tree, chapters_data, message_queue, threads>>

\* a double click on a row
toggle_chapter_selection ==
    \E item \in 1..Len(chapter_tree) :
        Ticked([chapter_selections EXCEPT ![item] = ~chapter_selections[item]])

select_all_chapters ==
    /\ chapter_tree # <<>>
    /\ Ticked([item \in 1..Len(chapter_tree) |-> TRUE])

deselect_all_chapters ==
    /\ chapter_tree # <<>>
    /\ Ticked([item \in 1..Len(chapter_tree) |-> FALSE])

invert_chapter_selection ==
    /\ chapter_tree # <<>>
    /\ Ticked([item \in 1..Len(chapter_tree) |-> ~chapter_selections[item]])

\* get_selected_chapters over the rows from `item` on: the chapters_data entries of
\* the ticked rows
RECURSIVE SelectedFrom(_, _, _, _)
SelectedFrom(tree, selections, data, item) ==
    IF item > Len(tree) THEN <<>>
    ELSE (IF selections[item] /\ tree[item] - 1 < Len(data) THEN <<data[tree[item]]>> ELSE <<>>)
         \o SelectedFrom(tree, selections, data, item + 1)

get_selected_chapters == SelectedFrom(chapter_tree, chapter_selections, chapters_data, 1)

\* the Start button calls its command only while it is enabled; with no file chosen
\* the handler only shows a warning
start_export ==
    /\ export_btn = "normal"
    /\ epub_file_path # ""
    /\ Len(threads) < MaxThreads
    /\ output_dir_path' = IF output_dir_path = "" THEN DefaultDir(epub_file_path)
                          ELSE output_dir_path
    /\ export_btn' = "disabled"
    /\ stop_btn' = "normal"
    /\ progress_var' = 0
    /\ status_var' = "exporting"
    /\ threads' = Append(threads, Thread("export", epub_file_path, output_dir_path'))
    /\ UNCHANGED <<core, epub_file_path, chapter_tree, chapter_selections, chapters_data,
                   message_queue>>

\* the Stop button: the status line and the buttons are reset, nothing else
stop_export ==
    /\ stop_btn = "normal"
    /\ Shown(reset_ui_state([Widgets EXCEPT !.status_var = "stopping"]))
    /\ UNCHANGED <<core, epub_file_path, output_dir_path, message_queue, threads>>

\* the rows are deleted (their ticks go with them); chapters_data is kept
clear_all ==
    /\ epub_file_path' = ""
    /\ output_dir_path' = ""
    /\ Shown(reset_ui_state([Widgets EXCEPT !.chapter_tree = <<>>,
                                            !.chapter_selections = <<>>]))
    /\ UNCHANGED <<core, message_queue, threads>>

(***************************************************************************)
(* The background threads                                                  *)
(***************************************************************************)
Message(by, type, data) == [type |-> type, data |-> data, by |-> by]

\* a line for the log widget
Logged(t) == Message(t, "log", "")

\* thread t puts messages on the queue and goes on as `next`
Stepped(t, messages, next) ==
    /\ message_queue' = message_queue \o messages
    /\ threads' = [threads EXCEPT ![t] = next]
    /\ UNCHANGED <<core, epub_file_path, output_dir_path, export_btn, stop_btn, progress_var,
                   status_var, chapter_tree, chapter_selections, chapters_data>>

\* _load_chapters_thread: the chapters of the file, or the exception of a failed load
load_chapters_thread ==
    \E t \in 1..Len(threads), outcome \in {"ok", "raise"} :
        /\ threads[t].kind = "load" /\ threads[t].at = "begin"
        /\ Stepped(t, IF outcome = "ok"
                      THEN <<Message(t, "chapters_loaded", BookChapters(threads[t].epub_path))>>
                      ELSE <<Message(t, "error", "load")>>,
                   [threads[t] EXCEPT !.at = "done"])

\* _debug_epub_thread: two log lines, or the exception of a failed load
debug_epub_thread ==
    \E t \in 1..Len(threads), outcome \in {"ok", "raise"} :
        /\ threads[t].kind = "debug" /\ threads[t].at = "begin"
        /\ Stepped(t, IF outcome = "ok" THEN <<Logged(t), Logged(t)>>
                      ELSE <<Logged(t), Message(t, "error", "debug")>>,
                   [threads[t] EXCEPT !.at = "done"])

\* the chapters the worker is going to export, given the ticked ones
Chosen(selected_chapters, epub_path) ==
    IF selected_chapters # <<>> THEN selected_chapters ELSE BookChapters(epub_path)

\* a message that ends an export: 'export_complete' or 'error'
Terminal(t, type, data) == <<Message(t, type, data)>>

\* _export_thread, lines 519-551: the exporter is made, then the worker takes the
\* ticked chapters of the window, else all chapters of its file (get_chapters may
\* raise); without chapters it reports an error and returns, else it makes the
\* directory and exports the images, whose failure is only logged
export_thread_choose ==
    \E t \in 1..Len(threads), outcome \in {"ok", "raise"} :
        /\ threads[t].kind = "export" /\ threads[t].at = "begin"
        /\ outcome = "raise" => get_selected_chapters = <<>>
        /\ LET mine == Chosen(get_selected_chapters, threads[t].epub_path)
           IN  CASE outcome = "raise" ->
                       Stepped(t, <<Logged(t)>> \o Terminal(t, "error", "export"),
                               [threads[t] EXCEPT !.at = "done"])
                 [] outcome = "ok" /\ mine = <<>> ->
                       Stepped(t, <<Logged(t), Logged(t)>> \o Terminal(t, "error", "no chapters"),
                               [threads[t] EXCEPT !.at = "done"])
                 [] OTHER ->
                       Stepped(t, <<Logged(t), Logged(t), Logged(t), Logged(t)>>,
                               [threads[t] EXCEPT !.at = "loop", !.chapters = mine])

\* the messages of one iteration of the chapter loop
Announced(t, i, n, outcome) ==
    << Message(t, "progress", (i * 100) \div n),
       Message(t, "status", "exporting chapter"),
       Logged(t) >>
        \o (IF outcome = "ok" THEN <<>> ELSE <<Logged(t)>>)

\* variant of LoopEnds in which the worker gives up once Stop has been pressed
LoopEndsWhenStopped(i, n, stopped) == i = n \/ stopped

\* chapter i of n is the last one the worker exports
LoopEnds(i, n, stopped) == i = n

\* lines 553-572: one chapter is exported, its failure is logged and the loop goes on;
\* after the last chapter the worker puts 'export_complete'
export_thread_chapter ==
    \E t \in 1..Len(threads), outcome \in {"ok", "raise"} :
        /\ threads[t].kind = "export" /\ threads[t].at = "loop"
        /\ LET n == Len(threads[t].chapters)
               last == LoopEnds(threads[t].i, n, stop_btn = "disabled")
           IN  Stepped(t, Announced(t, threads[t].i, n, outcome)
                            \o (IF last THEN Terminal(t, "export_complete", threads[t].output_dir)
                                ELSE <<>>),
                       [threads[t] EXCEPT !.at = IF last THEN "done" ELSE "loop", !.i = @ + 1])

\* a step of an export worker
export_thread == export_thread_choose \/ export_thread_chapter

NextGUI ==
    \/ browse_epub_file \/ browse_output_dir \/ preview_chapters \/ debug_epub_structure
    \/ toggle_chapter_selection \/ select_all_chapters \/ deselect_all_chapters
    \/ invert_chapter_selection
    \/ start_export \/ stop_export \/ clear_all \/ process_queue
    \/ load_chapters_thread \/ debug_epub_thread
    \/ export_thread_choose \/ export_thread_chapter

\* the window after its constructor; the exporter model stays as it is
InitGUI ==
    /\ Archive(Items(DocPlain, DocPlain, TRUE), EmptyToc, DefaultSpine)
    /\ pc = "idle"
    /\ Surroundings(TRUE, TRUE, FALSE, <<>>, "")

SpecGUI == InitGUI /\ [][NextGUI]_vars

\* the threads and the periodic callback keep being scheduled
SpecGUIFair ==
    /\ SpecGUI
    /\ WF_vars(process_queue)
    /\ WF_vars(load_chapters_thread) /\ WF_vars(debug_epub_thread) /\ WF_vars(export_thread)

(***************************************************************************)
(* Properties.  Their vocabulary is defined here from the archive alone    *)
(* (navigation tree, spine, documents), not from the operators above.      *)
(***************************************************************************)
\* the chapters as assembled, before the identical-content post-processing;
\* src[k] is the navigation or spine position that produced the k-th of them
Assembled == IF pc \in {"done", "idle", "export"} THEN assembled ELSE chapters

Ids(chs) == [k \in 1..Len(chs) |-> chs[k].id]

RECURSIVE IsSubsequence(_, _)
IsSubsequence(s, t) ==
    IF s = <<>> THEN TRUE
    ELSE IF t = <<>> THEN FALSE
    ELSE IF Head(s) = Head(t) THEN IsSubsequence(Tail(s), Tail(t))
    ELSE IsSubsequence(s, Tail(t))

\* depth-first pre-order of the navigation tree, by an explicit stack
RECURSIVE PreOrder(_, _)
PreOrder(toc, stack) ==
    IF stack = <<>> THEN <<>>
    ELSE <<Head(stack)>> \o PreOrder(toc, toc.nodes[Head(stack)].children \o Tail(stack))

NavHrefs(toc) == [k \in 1..Len(PreOrder(toc, toc.roots)) |->
                     toc.nodes[PreOrder(toc, toc.roots)[k]].href]

HasNavigation == book.toc.roots # <<>>

\* the identical-content re-split fires on the assembled list
ResplitFires == pc = "done" /\ AllIdentical(assembled)

\* C1: with a non-empty navigation tree and no re-split, the identifiers of the
\* returned chapters form a subsequence of the navigation hrefs in depth-first
\* pre-order (a node before its children, children in list order).
C1_PreOrderSubsequence ==
    (pc = "done" /\ HasNavigation /\ ~ResplitFires)
        => IsSubsequence(Ids(chapters), NavHrefs(book.toc))

\* a run over a nested tree, node 1 with children, that returned three chapters, the
\* last of them from a different resource than the first
C1_NestedTreeAssembled ==
    /\ pc = "done" /\ HasNavigation /\ ~ResplitFires
    /\ book.toc.nodes[1].children # <<>>
    /\ Len(chapters) = 3
    /\ FileOf(chapters[1].id) # FileOf(chapters[3].id)

\* C4: every chapter of the list, at every point of get_chapters and on return, has
\* non-empty content (navigation and spine assembly, heading re-split, text-pattern
\* re-split, single-chapter fallback).
C4_ContentNonEmpty ==
    \A k \in 1..Len(chapters) : chapters[k].content # <<>> /\ CharLen(chapters[k].content) > 0

\* a positional entry whose slice is empty (the marker of the next entry precedes its
\* own) was emitted with the whole document
C4_EmptySliceFallsBack ==
    /\ pc = "done" /\ HasNavigation
    /\ Len(chapters) = 2
    /\ chapters[1].id = <<"a", "#", "filepos", "2">>
    /\ chapters[2].id = <<"a", "#", "filepos", "1">>
    /\ chapters[1].content = book.items[1].content
    /\ \E i, j \in 1..Len(book.items[1].content) :
          /\ i < j
          /\ book.items[1].content[i].text = "id='filepos1'"
          /\ book.items[1].content[j].text = "id='filepos2'"

\* C5: no two chapters of the returned list share an identifier.
C5_IdsDistinct ==
    pc = "done" => \A k, l \in 1..Len(chapters) : k # l => chapters[k].id # chapters[l].id

\* the spine entries that are linear and name a decodable, non-blank document
LinearUsable(entry) ==
    /\ entry.linear = "yes"
    /\ \E i \in 1..Len(book.items) :
          /\ book.items[i].id = entry.id
          /\ \A j \in 1..(i - 1) : book.items[j].id # entry.id
          /\ book.items[i].type = "document"
          /\ book.items[i].decodable
          /\ \E t \in 1..Len(book.items[i].content) : book.items[i].content[t].kind # "space"

\* C10: with an empty navigation tree, the chapters assembled are exactly the linear
\* spine entries (those that name a readable, non-blank document), in spine order, and
\* none comes from a non-linear entry.
C10_OnePerLinearEntry ==
    (pc = "done" /\ ~HasNavigation)
        => Ids(assembled) = Ids(SelectSeq(book.spine, LinearUsable))

(***************************************************************************)
(* Positional markers                                                      *)
(***************************************************************************)
\* the document a navigation href names: the first document item with that name
TargetDocs(href) ==
    {i \in 1..Len(book.items) :
        /\ book.items[i].name = FileOf(href)
        /\ book.items[i].type = "document"
        /\ \A j \in 1..(i - 1) :
              ~(book.items[j].name = FileOf(href) /\ book.items[j].type = "document")}

TargetDoc(href) == book.items[CHOOSE i \in TargetDocs(href) : TRUE].content

\* the href has a positional (filepos) fragment
Positional(href) ==
    \E h \in 1..Len(href) : href[h] = "#" /\ h < Len(href) /\ href[h + 1] = "filepos"
                            /\ \A g \in 1..(h - 1) : href[g] # "#"

Fragment(href) == SubSeq(href, 1 + CHOOSE h \in 1..Len(href) : href[h] = "#", Len(href))

CaseFolded(s) == [i \in 1..Len(s) |-> IF s[i] = "FILEPOS" THEN "filepos" ELSE s[i]]

\* the places of doc where the marker of a fragment is found: id or name attributes
\* whose value, case folded, begins with the fragment
MarkerPlaces(doc, frag) ==
    {i \in 1..Len(doc) :
        /\ doc[i].kind \in {"id", "name"}
        /\ Len(doc[i].val) >= Len(frag)
        /\ CaseFolded(SubSeq(doc[i].val, 1, Len(frag))) = CaseFolded(frag)}

\* navigation entry i is positional, into a readable document that holds its marker
Marked(i) ==
    /\ i \in 1..Len(all_items)
    /\ Positional(all_items[i].href)
    /\ TargetDocs(all_items[i].href) # {}
    /\ MarkerPlaces(TargetDoc(all_items[i].href), Fragment(all_items[i].href)) # {}

\* the token at which the marker of entry i is found
MarkerOf(i) == Min(MarkerPlaces(TargetDoc(all_items[i].href), Fragment(all_items[i].href)))

\* the navigation entries resolved so far
Resolved == IF pc \in {"toc", "raised"} THEN 1..(idx - 1) ELSE 1..Len(all_items)

\* entry i produced a chapter with this content
Yields(i, content) ==
    \E k \in 1..Len(src) : src[k] = i /\ Assembled[k].content = content

\* entries i and i+1 are positional, into the same document, both markers found
MarkedPair(i) ==
    /\ Marked(i) /\ Marked(i + 1)
    /\ FileOf(all_items[i].href) = FileOf(all_items[i + 1].href)

\* C2 as stated: the content of entry i of a marked pair is exactly the slice from
\* its marker up to the marker of entry i+1.
C2_ExactSlice ==
    \A i \in Resolved :
        MarkedPair(i) =>
            Yields(i, Slice(TargetDoc(all_items[i].href), MarkerOf(i), MarkerOf(i + 1) - 1))

\* C2: the content of entry i of a marked pair is the slice from its marker up to the
\* marker of entry i+1 with leading and trailing whitespace removed, when the next
\* marker lies after its own; otherwise (same marker, or a marker found earlier in the
\* document) it is the whole document.  No heading or class heuristic chooses the end.
C2_TrimmedSliceOrDocument ==
    \A i \in Resolved :
        MarkedPair(i) =>
            Yields(i, IF MarkerOf(i) < MarkerOf(i + 1)
                      THEN Strip(Slice(TargetDoc(all_items[i].href),
                                       MarkerOf(i), MarkerOf(i + 1) - 1))
                      ELSE TargetDoc(all_items[i].href))

\* a marked pair was resolved whose slice holds a heading more than SkipChars
\* characters after the first marker, where the heuristic would have ended it
C2_HeadingInsideSlice ==
    \E i \in Resolved :
        /\ MarkedPair(i)
        /\ MarkerOf(i) < MarkerOf(i + 1)
        /\ \E h \in (MarkerOf(i) + 1)..(MarkerOf(i + 1) - 1) :
              /\ TargetDoc(all_items[i].href)[h].kind = "hopen"
              /\ Pos(TargetDoc(all_items[i].href), h)
                    >= Pos(TargetDoc(all_items[i].href), MarkerOf(i)) + SkipChars

\* the entries of the navigation list that lead into document A
IntoA == {i \in 1..Len(all_items) : FileOf(all_items[i].href) = A}

\* all entries into A are positional markers found in A in navigation order
MarkersInOrder ==
    /\ pc \in {"post", "done"}
    /\ IntoA # {}
    /\ \A i \in IntoA : Marked(i)
    /\ \A i, j \in IntoA : i < j => MarkerOf(i) < MarkerOf(j)

\* the entry into A that follows entry i, 0 for the last one
NextIntoA(i) == Min({j \in IntoA : j > i} \cup {Len(all_items) + 1}) % (Len(all_items) + 1)

SectionStarts(doc, off, kinds) ==
    {j \in 1..Len(doc) :
        /\ Pos(doc, j) >= off
        /\ doc[j].kind \in kinds
        /\ doc[j].kind = "hopen" => doc[j].lvl <= 4
        /\ doc[j].kind = "id" => /\ Len(doc[j].val) >= 2
                                 /\ CaseFolded(doc[j].val)[1] = "filepos"
                                 /\ doc[j].val[2] \in {"0", "1", "2"}}

NextSection(doc, off) ==
    IF SectionStarts(doc, off, {"hopen"}) # {} THEN Min(SectionStarts(doc, off, {"hopen"}))
    ELSE IF SectionStarts(doc, off, {"id"}) # {} THEN Min(SectionStarts(doc, off, {"id"}))
    ELSE IF SectionStarts(doc, off, {"chapdiv"}) # {}
         THEN Min(SectionStarts(doc, off, {"chapdiv"}))
    ELSE Len(doc) + 1

\* the slice of entry i ends at the marker of the navigation entry right after it, when
\* that is an entry into A, and else where the next section is taken to begin
SliceEnd(i) ==
    IF i + 1 \in IntoA THEN MarkerOf(i + 1)
    ELSE NextSection(TargetDoc(A), Pos(TargetDoc(A), MarkerOf(i)) + SkipChars)

Shared == assembled[1].content

\* the closing tag of the heading element opened at token i: the first later closing
\* tag of the same level, 0 when there is none
ClosingTag(doc, i) ==
    Min({j \in (i + 1)..Len(doc) : doc[j].kind = "hclose" /\ doc[j].lvl = doc[i].lvl}
            \cup {Len(doc) + 1}) % (Len(doc) + 1)

\* the heading elements of levels 1-3 of doc, by the token of their opening tag
HeadingElements(doc) ==
    Ascending({i \in 1..Len(doc) :
                  doc[i].kind = "hopen" /\ doc[i].lvl \in 1..3 /\ ClosingTag(doc, i) # 0})

\* the text of the heading element opened at token i, markup removed, entities decoded
HeadingText(doc, i) == unescape(SubTags(Slice(doc, i + 1, ClosingTag(doc, i) - 1), <<>>))

\* the identical-content re-split fired on a content with two or more headings
SplitAtHeadings == ResplitFires /\ Len(HeadingElements(Shared)) >= 2

\* C8 as stated: one chapter per heading element, in heading order, titled with the
\* text of the heading, markup removed and entities decoded.
C8_TitleIsHeadingText ==
    SplitAtHeadings =>
        /\ Len(chapters) = Len(HeadingElements(Shared))
        /\ \A i \in 1..Len(chapters) :
              /\ chapters[i].content[1] = Shared[HeadingElements(Shared)[i]]
              /\ chapters[i].title = HeadingText(Shared, HeadingElements(Shared)[i])

\* C8: one chapter per heading element of levels 1-3, in heading order, each running
\* from its heading to the next (the last to the end), trimmed; its title is the text
\* of the heading with markup removed, entities decoded and surrounding whitespace
\* removed, and "Chapter i" when nothing is left.
C8_TitleTrimmedOrPlaceholder ==
    SplitAtHeadings =>
        /\ Len(chapters) = Len(HeadingElements(Shared))
        /\ \A i \in 1..Len(chapters) :
              /\ chapters[i].content
                    = Strip(Slice(Shared, HeadingElements(Shared)[i],
                                  IF i < Len(chapters) THEN HeadingElements(Shared)[i + 1] - 1
                                  ELSE Len(Shared)))
              /\ chapters[i].title
                    = IF Strip(HeadingText(Shared, HeadingElements(Shared)[i])) # <<>>
                      THEN Strip(HeadingText(Shared, HeadingElements(Shared)[i]))
                      ELSE <<Sym("Chapter "), Sym(Num(i))>>

\* a re-split into three chapters, one titled from a heading with markup, an entity and
\* surrounding spaces, one from an empty heading
C8_EntityAndEmptyHeading ==
    /\ SplitAtHeadings
    /\ Len(chapters) = 3
    /\ \E i \in 1..3 : chapters[i].title = <<Sym("Chapter "), Sym(Num(i))>>
    /\ \E i \in 1..3 : chapters[i].title = <<Ampersand, Lex["y"]>>

\* C9 as stated: the returned list never consists of two or more chapters that all
\* have the same content.
C9_NeverAllIdentical == pc = "done" => ~AllIdentical(chapters)

\* C9: when assembly yields two or more chapters that all have the same content, the
\* returned list is not the assembled one but a re-split of the shared content: one
\* chapter "full_content" holding all of it, or two or more chapters with the
\* identifiers chapter_1, chapter_2, ... (whose contents may again all be the same).
C9_ReplacedByResplit ==
    ResplitFires =>
        /\ chapters # assembled
        /\ \/ /\ Len(chapters) = 1
              /\ chapters[1].id = <<"full_content">>
              /\ chapters[1].content = Shared
           \/ /\ Len(chapters) >= 2
              /\ \A i \in 1..Len(chapters) : chapters[i].id = <<"chapter_", Num(i)>>

\* the re-split fired and returned two or more chapters that again all have the same
\* content
C9_ResplitStillIdentical == ResplitFires /\ AllIdentical(chapters)

(***************************************************************************)
(* EpubExporterV2._extract_from_toc_standard                               *)
(***************************************************************************)
\* within _extract_from_toc_standard, or at its return
InTocStandard == pc \in {"toc", "fallback"} /\ all_items # <<>>

\* the navigation entry that produced the k-th chapter
Producer(k) == all_items[src[k]].href

\* (resource name, fragment) of an href; the fragment is <<>> when there is none
Pair(href) ==
    IF \E h \in 1..Len(href) : href[h] = "#"
    THEN <<SubSeq(href, 1, (CHOOSE h \in 1..Len(href) :
                               href[h] = "#" /\ \A g \in 1..(h - 1) : href[g] # "#") - 1),
           Fragment(href)>>
    ELSE <<href, <<>> >>

\* C6: at most one chapter is emitted per (resource name, fragment) pair: no two
\* chapters come from navigation entries with the same pair.
C6_OnePerPair ==
    InTocStandard =>
        \A k, l \in 1..Len(src) : k # l => Pair(Producer(k)) # Pair(Producer(l))

\* two entries carry the same resource and fragment, the first produced the chapter of
\* that fragment, and the second has been passed
C6_RepeatedFragmentPassed ==
    /\ pc = "fallback" /\ all_items # <<>>
    /\ \E i, j \in 1..Len(all_items) :
          /\ i < j
          /\ all_items[i].href = all_items[j].href
          /\ Pair(all_items[i].href)[2] # <<>>
          /\ \E k \in 1..Len(src) : src[k] = i /\ chapters[k].id = all_items[i].href

\* C7: once an entry without a fragment has emitted a resource's full text, no later
\* entry with a fragment of that resource emits a chapter.
C7_FragmentsAfterWholeSkipped ==
    InTocStandard =>
        \A k, l \in 1..Len(src) :
            ~ /\ k < l
              /\ Pair(Producer(k))[2] = <<>>
              /\ chapters[k].content = TargetDoc(Producer(k))
              /\ Pair(Producer(l))[2] # <<>>
              /\ Pair(Producer(l))[1] = Pair(Producer(k))[1]

(***************************************************************************)
(* Fallbacks and failures of EpubExporter                                  *)
(***************************************************************************)
\* the manifest item a navigation href names
TargetItem(href) == book.items[CHOOSE i \in TargetDocs(href) : TRUE]

\* the href leads to no content: it names no document of the manifest, or one whose
\* bytes are not UTF-8, or one without text
Unresolvable(href) ==
    \/ TargetDocs(href) = {}
    \/ ~TargetItem(href).decodable
    \/ TargetItem(href).content = <<>>

NavigationUnresolvable ==
    \A k \in 1..Len(NavHrefs(book.toc)) : Unresolvable(NavHrefs(book.toc)[k])

\* the spine entry names a readable document that is not blank
NamesText(entry) ==
    \E i \in 1..Len(book.items) :
        /\ book.items[i].id = entry.id
        /\ \A j \in 1..(i - 1) : book.items[j].id # entry.id
        /\ book.items[i].type = "document"
        /\ book.items[i].decodable
        /\ \E t \in 1..Len(book.items[i].content) : book.items[i].content[t].kind # "space"

\* C11: when the navigation tree is non-empty and none of its entries resolves to
\* content, the chapters assembled are those of the spine (one per linear entry that
\* names a readable document), not the empty list.
C11_SpineWhenNavigationYieldsNothing ==
    (pc = "done" /\ HasNavigation /\ NavigationUnresolvable)
        => Ids(assembled) = Ids(SelectSeq(book.spine, LinearUsable))

\* the public method called last has returned normally
Returned == pc = "idle" /\ method # ""

\* C12: the lists returned by calls of get_chapters on one exporter are equal, chapter
\* by chapter, in title, content and identifier.
C12_CallsAgree ==
    \A i, j \in 1..Len(returned) :
        (returned[i].method = "get_chapters" /\ returned[j].method = "get_chapters")
            => returned[i].value = returned[j].value

\* get_chapters has returned twice, the second time a list the re-split produced
C12_TwoCallsReturned ==
    /\ Len(returned) = 2
    /\ returned[1].method = "get_chapters" /\ returned[2].method = "get_chapters"
    /\ Len(returned[2].value) >= 2
    /\ returned[2].value[1].id = <<"chapter_", "1">>

\* C13: a navigation entry that cannot be resolved never aborts the run: once the
\* archive is loaded no exception reaches the caller, and every navigation entry that
\* can be resolved has its chapter in the list.
C13_UnresolvableSkipped ==
    /\ loaded => pc # "raised"
    /\ (pc = "done" /\ HasNavigation) =>
          \A i \in 1..Len(all_items) :
              ~Unresolvable(all_items[i].href) => \E k \in 1..Len(src) : src[k] = i

\* no navigation entry and no spine entry of the archive resolves to content
ArchiveUnresolvable ==
    /\ NavigationUnresolvable
    /\ \A k \in 1..Len(book.spine) : ~NamesText(book.spine[k])

\* C14: on a loaded archive in which nothing resolves, no call raises, get_chapters
\* returns the empty list, and export_chapters writes no image and no chapter file.
C14_EmptyResultNoError ==
    (loaded /\ ArchiveUnresolvable) =>
        /\ pc # "raised"
        /\ \A r \in 1..Len(returned) : returned[r].value = <<>>
        /\ pc \in {"done", "idle", "export"} => chapters = <<>>
        /\ output.images = {} /\ output.files = {}

\* C15: with a missing path the constructor raises and no method is ever entered;
\* with an unreadable file every call raises to the caller: nothing is returned, no
\* chapter exists, and no image and no chapter file is written.
C15_LoadFailureSurfaced ==
    /\ ~epub.exists => (pc \in {"new", "raised"} /\ method = "")
    /\ ~epub.readable =>
          /\ ~loaded
          /\ method # "" => pc = "raised"
          /\ returned = <<>> /\ chapters = <<>>
          /\ output.images = {} /\ output.files = {}

\* export_chapters was called on an exporter over an unreadable file and has raised,
\* after making the output directory
C15_ExportRaisedOnLoad ==
    /\ pc = "raised" /\ epub.exists /\ ~epub.readable
    /\ method = "export_chapters" /\ output.made

\* the export loop of the last export_chapters call has been entered
Exporting == method = "export_chapters" /\ (pc = "export" \/ attempts # <<>>)

\* C16: once the export loop is entered no failure ends it: the chapters attempted so
\* far are chapters 1, 2, ... of the list, each once and in order; a chapter whose
\* conversion failed had the plain-text fallback attempted; and export_chapters
\* returns only after the last chapter of the list.
C16_EveryChapterAttempted ==
    Exporting =>
        /\ pc \in {"export", "idle"}
        /\ Len(attempts) = IF pc = "export" THEN idx - 1 ELSE Len(chapters)
        /\ \A k \in 1..Len(attempts) :
              /\ attempts[k].index = k
              /\ attempts[k].id = chapters[k].id
              /\ attempts[k].convert = "fail" => attempts[k].fallback \in {"ok", "fail"}

\* export_chapters has returned after a first chapter whose conversion and fallback
\* both failed and a later chapter that was converted and written
C16_WentOnAfterFailure ==
    /\ Returned /\ method = "export_chapters"
    /\ Len(attempts) >= 2
    /\ attempts[1].convert = "fail" /\ attempts[1].fallback = "fail"
    /\ attempts[Len(attempts)].write = "ok"
    /\ output.files = {[index |-> Len(attempts), via |-> "pandoc"]}

(***************************************************************************)
(* Titles                                                                  *)
(***************************************************************************)
\* "Chapter N"
ChapterN(n) == <<Sym("Chapter "), Sym(Num(n))>>

\* the text of the first manifest item with the id of a spine entry
SpineDoc(entry) ==
    book.items[CHOOSE i \in 1..Len(book.items) :
                  /\ book.items[i].id = entry.id
                  /\ \A j \in 1..(i - 1) : book.items[j].id # entry.id].content

\* the document has neither a heading element nor a title element to take a title from
Untitled(doc) == \A t \in 1..Len(doc) : doc[t].kind \notin {"hopen", "topen"}

\* C17: every chapter of the list has a non-empty title, and a title of the form
\* "Chapter N" stands only at position N.  The chapter of a navigation entry carries
\* the title of the entry, and "Chapter N" when the entry has none; the chapter of a
\* spine document without heading and title element is titled "Chapter N".
C17_TitleOrPlaceholder ==
    /\ \A k \in 1..Len(chapters) :
          /\ chapters[k].title # <<>>
          /\ chapters[k].title[1] = Sym("Chapter ") => chapters[k].title = ChapterN(k)
    /\ \A k \in 1..Len(src) :
          IF HasNavigation
          THEN Assembled[k].title = IF all_items[src[k]].title # <<>>
                                    THEN all_items[src[k]].title ELSE ChapterN(k)
          ELSE Untitled(SpineDoc(book.spine[src[k]])) => Assembled[k].title = ChapterN(k)

\* the second chapter of a returned list comes from a navigation entry without title
\* and is titled "Chapter 2"
C17_UntitledEntryNamed ==
    /\ pc = "done" /\ HasNavigation /\ ~ResplitFires
    /\ Len(chapters) >= 2
    /\ all_items[src[2]].title = <<>>
    /\ chapters[2].title = ChapterN(2)

(***************************************************************************)
(* EpubExporter._extract_by_filepos                                        *)
(***************************************************************************)
\* the places of doc at which an id or name attribute has exactly this value
ExactPlaces(doc, frag) == {i \in 1..Len(doc) : doc[i].kind \in {"id", "name"} /\ doc[i].val = frag}

\* navigation entry i is positional and names a readable document with text
PositionalEntry(i) ==
    /\ i \in 1..Len(all_items)
    /\ Positional(all_items[i].href)
    /\ ~Unresolvable(all_items[i].href)

\* entry i produced a chapter
Produced(i) == \E k \in 1..Len(src) : src[k] = i

\* the content of the chapter entry i produced
ContentOf(i) == Assembled[CHOOSE k \in 1..Len(src) : src[k] = i].content

\* entry i+1 is positional, into the document of entry i, and an attribute of exactly
\* its fragment stands after place s
ExactNextAfter(i, s) ==
    /\ PositionalEntry(i + 1)
    /\ FileOf(all_items[i + 1].href) = FileOf(all_items[i].href)
    /\ ExactPlaces(TargetDoc(all_items[i].href), Fragment(all_items[i + 1].href)) # {}
    /\ Min(ExactPlaces(TargetDoc(all_items[i].href), Fragment(all_items[i + 1].href))) > s

\* the chapter c of entry i starts at place s of doc, the exact marker, and ends before
\* the exact marker of the next entry when there is one
StartsAtExact(i, doc, c, s) ==
    /\ c[1] = doc[s]
    /\ ExactNextAfter(i, s) =>
          c = Strip(Slice(doc, s, Min(ExactPlaces(doc, Fragment(all_items[i + 1].href))) - 1))

\* C18: the marker of a positional entry is an id or name attribute whose value equals
\* the fragment: the chapter is the whole document (or, with no such attribute, the
\* fallback for a marker that is not found), or it starts at the first attribute
\* equal to the fragment and ends before the first attribute equal to the fragment of
\* the next entry; attributes that only begin with the fragment, or differ from it in
\* letter case, are passed over.
C18_ExactMarker ==
    \A i \in Resolved :
        PositionalEntry(i) =>
            /\ Produced(i)
            /\ \/ ContentOf(i) = TargetDoc(all_items[i].href)
               \/ /\ ExactPlaces(TargetDoc(all_items[i].href), Fragment(all_items[i].href)) = {}
                  /\ ContentOf(i)[1].kind = "hopen"
               \/ /\ ExactPlaces(TargetDoc(all_items[i].href), Fragment(all_items[i].href)) # {}
                  /\ StartsAtExact(i, TargetDoc(all_items[i].href), ContentOf(i),
                                   Min(ExactPlaces(TargetDoc(all_items[i].href),
                                                   Fragment(all_items[i].href))))

\* the first place at or after character offset `off` where a section of any of the
\* three kinds starts, Len + 1 when there is none
EarliestSection(doc, off) ==
    Min(SectionStarts(doc, off, {"hopen", "id", "chapdiv"}) \cup {Len(doc) + 1})

\* C19: when the end of a marked entry is not taken from the next navigation target,
\* the chapter runs from its marker to the earliest h1-h4 tag, filepos id attribute
\* or chapter div found SkipChars or more characters after the marker, whichever of
\* the three comes first in the document, and to the end of the document when there
\* is none.
C19_EarliestSectionStart ==
    \A i \in Resolved :
        (Marked(i) /\ ~MarkedPair(i)) =>
            Yields(i, Strip(Slice(TargetDoc(all_items[i].href), MarkerOf(i),
                                  EarliestSection(TargetDoc(all_items[i].href),
                                                  Pos(TargetDoc(all_items[i].href), MarkerOf(i))
                                                      + SkipChars) - 1)))

\* c is a non-empty trimmed slice of doc that begins at place s
SliceFrom(doc, c, s) == c # <<>> /\ \E e \in s..Len(doc) : c = Strip(Slice(doc, s, e))

\* C20: the chapter of a marked entry is either a non-empty trimmed slice of the
\* document that begins at its marker, or the whole document; it is the whole document
\* when the marker of the next navigation target stands at or before its own.
C20_SliceOrDocument ==
    \A i \in Resolved :
        Marked(i) =>
            /\ Produced(i)
            /\ \/ ContentOf(i) = TargetDoc(all_items[i].href)
               \/ SliceFrom(TargetDoc(all_items[i].href), ContentOf(i), MarkerOf(i))
            /\ (MarkedPair(i) /\ MarkerOf(i + 1) <= MarkerOf(i))
                  => ContentOf(i) = TargetDoc(all_items[i].href)

\* a marked entry whose next target is the very same marker was given the whole
\* document, text before the marker included
C20_SameMarkerTwice ==
    \E i \in Resolved :
        /\ MarkedPair(i)
        /\ MarkerOf(i + 1) = MarkerOf(i)
        /\ Pos(TargetDoc(all_items[i].href), MarkerOf(i)) > SkipChars
        /\ Yields(i, TargetDoc(all_items[i].href))

(***************************************************************************)
(* EpubExporter._extract_by_id_anchor                                      *)
(***************************************************************************)
\* the href has a fragment that is not positional
Identified(href) ==
    /\ \E h \in 1..Len(href) : href[h] = "#"
    /\ Fragment(href) # <<>>
    /\ ~Positional(href)

\* the '>' that ends the tag opened at place t of doc, Len + 1 when nothing ends it
TagEnd(doc, t) == Min({g \in t..Len(doc) : doc[g].kind = "tagend"} \cup {Len(doc) + 1})

\* the tags of doc that carry an id attribute equal to the fragment, by the place of
\* their '<'
IdTags(doc, frag) ==
    {t \in 1..Len(doc) :
        /\ doc[t].kind = "tagopen"
        /\ TagEnd(doc, t) <= Len(doc)
        /\ \E a \in (t + 1)..(TagEnd(doc, t) - 1) : doc[a].kind = "id" /\ doc[a].val = frag}

\* the first h1-h4 tag that begins after the tag at place t, Len + 1 when there is none
HeadingAfter(doc, t) ==
    Min({g \in (TagEnd(doc, t) + 1)..Len(doc) : doc[g].kind = "hopen" /\ doc[g].lvl <= 4}
            \cup {Len(doc) + 1})

\* navigation entry i has an identifier fragment and names a readable document with text
IdentifiedEntry(i) ==
    /\ i \in 1..Len(all_items)
    /\ Identified(all_items[i].href)
    /\ ~Unresolvable(all_items[i].href)

\* C21: the chapter of an entry with an identifier fragment is, when a tag of the
\* document has an id equal to the fragment, the trimmed slice from the first such tag
\* to the first h1-h4 tag that begins after it (to the end of the document when there
\* is none); when no tag has that id it is the whole document, unmodified.
C21_IdSliceOrDocument ==
    \A i \in Resolved :
        IdentifiedEntry(i) =>
            Yields(i, IF IdTags(TargetDoc(all_items[i].href), Fragment(all_items[i].href)) # {}
                      THEN Strip(Slice(TargetDoc(all_items[i].href),
                                       Min(IdTags(TargetDoc(all_items[i].href),
                                                  Fragment(all_items[i].href))),
                                       HeadingAfter(TargetDoc(all_items[i].href),
                                                    Min(IdTags(TargetDoc(all_items[i].href),
                                                               Fragment(all_items[i].href)))) - 1))
                      ELSE TargetDoc(all_items[i].href))

(***************************************************************************)
(* EpubExporter._smart_split_content                                       *)
(***************************************************************************)
\* the heading elements of levels 1-4 of doc, by the place of their opening tag
Headings14(doc) ==
    Ascending({i \in 1..Len(doc) :
                  /\ doc[i].kind = "hopen" /\ doc[i].lvl \in 1..4
                  /\ \E j \in (i + 1)..Len(doc) : doc[j].kind = "hclose" /\ doc[j].lvl \in 1..4})

\* what the heuristic fallback makes of doc
BetweenFirstTwo(doc) ==
    IF CharLen(doc) > 10000 /\ Len(Headings14(doc)) >= 2
    THEN Slice(doc, Headings14(doc)[1], Headings14(doc)[2] - 1)
    ELSE doc

\* C22: the chapter of a positional entry whose marker is not in the document (no id
\* or name attribute equals the fragment) is the heuristic fallback: for a document
\* of more than 10,000 characters with two or more heading elements of levels 1-4
\* the slice from the start of the first heading to the start of the second, and the
\* whole document in every other case.
C22_FallbackBetweenHeadings ==
    \A i \in Resolved :
        (/\ PositionalEntry(i)
         /\ ExactPlaces(TargetDoc(all_items[i].href), Fragment(all_items[i].href)) = {})
            => Yields(i, BetweenFirstTwo(TargetDoc(all_items[i].href)))

(***************************************************************************)
(* The degenerate-content detector of EpubExporter.get_chapters            *)
(***************************************************************************)
\* get_chapters has finished its last call; its locals are as it left them
Finished == pc \in {"done", "idle", "export"} /\ method # ""

\* the assembled list does not trigger the re-split: at most one chapter, or a
\* chapter whose content differs from that of the first
Untriggered ==
    \/ Len(assembled) <= 1
    \/ \E k \in 2..Len(assembled) : assembled[k].content # assembled[1].content

\* C23: when the assembled list has at most one chapter, or a chapter whose content
\* differs from that of the first, the list get_chapters hands back is the assembled
\* list: the same chapters in the same order, titles, contents and identifiers
\* unchanged.
C23_AssembledKept ==
    (Finished /\ Untriggered) =>
        /\ chapters = assembled
        /\ (pc = "idle" /\ method = "get_chapters")
              => returned[Len(returned)].value = assembled

\* get_chapters returned, untouched, two or more chapters of different content, the
\* first of which holds two headings at which a re-split would have cut it
C23_DifferentContentsKept ==
    /\ pc = "idle" /\ method = "get_chapters"
    /\ Len(assembled) >= 2
    /\ assembled[2].content # assembled[1].content
    /\ Len(HeadingElements(assembled[1].content)) >= 2
    /\ returned[Len(returned)].value = assembled

(***************************************************************************)
(* EpubExporter._split_by_html_headings                                    *)
(***************************************************************************)
\* the places of Shared that chapter i takes up when it is laid at heading i
Extent(i) ==
    HeadingElements(Shared)[i]..(HeadingElements(Shared)[i] + Len(chapters[i].content) - 1)

\* the chapters that take up place t of Shared
Holders(t) == {i \in 1..Len(chapters) : t \in Extent(i)}

\* where the piece of heading i ends: before heading i+1, the last at the end of Shared
PieceEnd(i) ==
    IF i < Len(HeadingElements(Shared)) THEN HeadingElements(Shared)[i + 1] - 1 ELSE Len(Shared)

\* C24 as stated: chapter i is the slice from the start of heading i to the start of
\* heading i+1, the last to the end; laid end to end the chapters are the shared
\* content from the first heading on.
C24_SlicesCoverFromFirstHeading ==
    SplitAtHeadings =>
        /\ Len(chapters) = Len(HeadingElements(Shared))
        /\ \A i \in 1..Len(chapters) :
              chapters[i].content = Slice(Shared, HeadingElements(Shared)[i], PieceEnd(i))
        /\ Flat([i \in 1..Len(chapters) |-> chapters[i].content])
              = Slice(Shared, HeadingElements(Shared)[1], Len(Shared))

\* C24: with two or more headings of levels 1-3 there is one chapter per heading;
\* chapter i lies in the shared content from the start of heading i on and ends
\* before heading i+1, so the chapters do not overlap and stand in document order;
\* what lies between the end of a chapter and the next heading (or the end of the
\* content) is whitespace only, so from the first heading on every place that is not
\* whitespace belongs to exactly one chapter; nothing before the first heading
\* belongs to a chapter.
C24_TrimmedSlicesCover ==
    SplitAtHeadings =>
        /\ Len(chapters) = Len(HeadingElements(Shared))
        /\ \A i \in 1..Len(chapters) :
              /\ chapters[i].content # <<>>
              /\ Max(Extent(i)) <= PieceEnd(i)
              /\ chapters[i].content = Slice(Shared, Min(Extent(i)), Max(Extent(i)))
              /\ \A t \in (Max(Extent(i)) + 1)..PieceEnd(i) : Shared[t].kind = "space"
        /\ \A t \in 1..Len(Shared) :
              /\ Cardinality(Holders(t)) <= 1
              /\ t < HeadingElements(Shared)[1] => Holders(t) = {}
              /\ (t >= HeadingElements(Shared)[1] /\ Shared[t].kind # "space") => Holders(t) # {}

\* a re-split at headings in which whitespace that stands before the second heading
\* is in no chapter
C24_SpaceBeforeHeadingDropped ==
    /\ SplitAtHeadings
    /\ Len(chapters) = Len(HeadingElements(Shared))
    /\ \E t \in HeadingElements(Shared)[1]..(HeadingElements(Shared)[2] - 1) :
          /\ Shared[t].kind = "space"
          /\ Holders(t) = {}

(***************************************************************************)
(* EpubExporter._split_by_text_patterns                                    *)
(***************************************************************************)
\* the re-split fired on a content without two headings of levels 1-3 and cut it into
\* chapters at lines of text
SplitAtLines ==
    /\ ResplitFires
    /\ Len(HeadingElements(Shared)) < 2
    /\ Len(chapters) >= 2

\* the lines of a chapter
LinesOf(chapter) == SplitLines(chapter.content)

\* C25: in a re-split at lines of text every line that matches a heading pattern
\* starts a chapter (no chapter holds a heading line after its first line), and
\* every chapter that begins with a heading line from which the pattern captured
\* text carries that text as its title, the first chapter included.
C25_HeadingLineStartsAndTitles ==
    SplitAtLines =>
        \A k \in 1..Len(chapters) :
            /\ \A l \in 2..Len(LinesOf(chapters[k])) : ~HeadingLine(LinesOf(chapters[k])[l]).hit
            /\ (/\ HeadingLine(LinesOf(chapters[k])[1]).hit
                /\ HeadingLine(LinesOf(chapters[k])[1]).title # <<>>)
                  => chapters[k].title = HeadingLine(LinesOf(chapters[k])[1]).title

(***************************************************************************)
(* EpubExporter._split_content_by_headings: the single-chapter fallback    *)
(***************************************************************************)
\* the non-blank lines of the text of doc, markup taken for line breaks, each trimmed
TextLines(doc) ==
    SelectSeq([l \in 1..Len(SplitLines(SubTags(doc, <<Newline>>))) |->
                  Strip(SplitLines(SubTags(doc, <<Newline>>))[l])],
              LAMBDA line : line # <<>>)

\* neither way of splitting yields two chapters: the shared content has fewer than two
\* headings of levels 1-3, and no line of its text after the first is a heading line
Unsplittable ==
    /\ Len(HeadingElements(Shared)) < 2
    /\ \A l \in 2..Len(TextLines(Shared)) : ~HeadingLine(TextLines(Shared)[l]).hit

\* C26: when the re-split fires and neither the heading split nor the line split
\* yields two chapters, the list returned is one chapter: the shared content, titled
\* "Complete Content", with the identifier "full_content"; the identical chapters are
\* not returned.
C26_CompleteContent ==
    (ResplitFires /\ Unsplittable) =>
        /\ Len(chapters) = 1
        /\ chapters[1].content = Shared
        /\ chapters[1].title = <<Sym("Complete Content")>>
        /\ chapters[1].id = <<"full_content">>

\* the re-split fired on a content with one heading of levels 1-3 and a heading line
\* on its first line only, and one chapter was returned for it
C26_OneHeadingOnly ==
    /\ ResplitFires /\ Unsplittable
    /\ Len(HeadingElements(Shared)) = 1
    /\ Len(TextLines(Shared)) >= 2
    /\ HeadingLine(TextLines(Shared)[1]).hit
    /\ Len(chapters) = 1

(***************************************************************************)
(* The window: vocabulary of the properties of EpubExporterGUI             *)
(***************************************************************************)
\* the export workers that have not yet put their terminal message
RunningExports ==
    {t \in 1..Len(threads) : threads[t].kind = "export" /\ threads[t].at # "done"}

\* the messages on the queue that thread t has put
PutBy(t) == SelectSeq(message_queue, LAMBDA message : message.by = t)

IsTerminal(message) == message.type \in {"export_complete", "error"}

\* C27: at most one export worker is running at any time: no second worker is
\* started before the first has put its terminal message.
C27_OneExportWorker == Cardinality(RunningExports) <= 1

\* thread t is an export worker
Export(t) == t \in 1..Len(threads) /\ threads[t].kind = "export"

\* export worker t has returned
Ended(t) == Export(t) /\ threads[t].at = "done"

\* the buttons as the constructor leaves them: Start enabled, Stop disabled
Ready == export_btn = "normal" /\ stop_btn = "disabled"

\* what thread t puts on the queue in a step
NewlyPut(t) ==
    SelectSeq(SubSeq(message_queue', Len(message_queue) + 1, Len(message_queue')),
              LAMBDA message : message.by = t)

\* a step in which export worker t returns
Returns(t) == ~Ended(t) /\ threads'[t].at = "done"

\* every export worker started so far has returned and its messages are processed
AllOver == \A t \in 1..Len(threads) : Export(t) => Ended(t) /\ PutBy(t) = <<>>

\* C28: every export that has been started ends: again and again all the workers
\* started so far have returned and their messages are processed (a worker that has
\* returned stays so); a worker puts a terminal message exactly in the step in which
\* it returns, as the last message it ever puts, and none before; and processing a
\* terminal message leaves Start enabled and Stop disabled.
C28_ExportEnds ==
    /\ []<>AllOver
    /\ [][\A t \in 1..Len(threads') :
            threads'[t].kind = "export" =>
                /\ NewlyPut(t) # <<>> => ~Ended(t)
                /\ Returns(t) <=> (NewlyPut(t) # <<>> /\ IsTerminal(NewlyPut(t)[Len(NewlyPut(t))]))
                /\ \A k \in 1..(Len(NewlyPut(t)) - 1) : ~IsTerminal(NewlyPut(t)[k])]_vars
    /\ [][((\E k \in 1..Len(message_queue) : IsTerminal(message_queue[k]))
             /\ message_queue' = <<>>) => Ready']_vars

\* C28 witness: an export over two chapters has ended, its messages are processed
\* and the window is ready again.
C28_ExportOverAndReady ==
    \E t \in 1..Len(threads) :
        /\ Ended(t)
        /\ Len(threads[t].chapters) = 2
        /\ threads[t].i = 3
        /\ message_queue = <<>>
        /\ Ready
        /\ status_var = "ready"

\* export worker t is in its chapter loop
InLoop(t) == Export(t) /\ threads[t].at = "loop"

\* export worker t has passed every chapter it chose to the export
AllExported(t) == threads[t].chapters # <<>> => threads[t].i = Len(threads[t].chapters) + 1

\* every export worker started so far has returned, having exported all its chapters
AllThrough == \A t \in 1..Len(threads) : Export(t) => Ended(t) /\ AllExported(t)

Exported(t) == SubSeq(threads[t].chapters, 1, threads[t].i - 1)

\* the chapter is one of the chapters of the file at path
BelongsTo(chapter, path) ==
    \E k \in 1..Len(BookChapters(path)) : BookChapters(path)[k] = chapter

\* C30: the chapters an export writes belong to the EPUB file selected when Start was
\* pressed, which is the file passed to the worker.
C30_ExportsOwnChapters ==
    \A t \in 1..Len(threads) :
        Export(t) =>
            \A k \in 1..Len(Exported(t)) : BelongsTo(Exported(t)[k], threads[t].epub_path)

=============================================================================
